---- MODULE Spec2Model ----
(***************************************************************************)
(* Model of the image compositing engine (utils/imageComposite):           *)
(* extractStripFromComposite, getPageSizeFromGrid,                         *)
(* createStripGridComposite and createGridComposite, with the browser's    *)
(* Image decode callbacks as separate steps.                               *)
(*                                                                         *)
(* Numbers: JavaScript numbers are modelled as exact rationals <<n, d>>    *)
(* with d > 0 (IEEE-754 rounding of intermediate results is not modelled); *)
(* Math.round, Math.floor, Math.min, Math.max and % are modelled on them.  *)
(***************************************************************************)
EXTENDS Integers, Sequences, FiniteSets, TLC

(* ------------------------------------------------------------------ *)
(* Bounds of the model                                                *)
(* ------------------------------------------------------------------ *)
MaxDpi == 2
MaxPhotos == 4
MaxDim == 2
MaxCaptures == 4
MaxPageDim == 4

(* ------------------------------------------------------------------ *)
(* Rational arithmetic (JavaScript number operations)                 *)
(* ------------------------------------------------------------------ *)
Abs(i) == IF i < 0 THEN -i ELSE i

RECURSIVE Gcd(_, _)
Gcd(a, b) == IF b = 0 THEN a ELSE Gcd(b, a % b)

\* a rational in lowest terms with a positive denominator
Norm(n, d) ==
    LET g == Gcd(Abs(n), Abs(d))
        s == IF d < 0 THEN -1 ELSE 1
    IN  <<(s * n) \div g, (s * d) \div g>>

R(i) == <<i, 1>>
RAdd(a, b) == Norm(a[1] * b[2] + b[1] * a[2], a[2] * b[2])
RSub(a, b) == Norm(a[1] * b[2] - b[1] * a[2], a[2] * b[2])
RMul(a, b) == Norm(a[1] * b[1], a[2] * b[2])
RDiv(a, b) == Norm(a[1] * b[2], a[2] * b[1])
RLt(a, b) == a[1] * b[2] < b[1] * a[2]
RLe(a, b) == a[1] * b[2] <= b[1] * a[2]
RAbs(a) == <<Abs(a[1]), a[2]>>
RMin(a, b) == IF RLt(b, a) THEN b ELSE a
RMax(a, b) == IF RLt(a, b) THEN b ELSE a

\* floor of an integer quotient with a positive divisor
FloorDiv(n, d) == IF n >= 0 THEN n \div d ELSE -((-n + d - 1) \div d)

\* Math.floor
Floor(a) == FloorDiv(a[1], a[2])
\* Math.round: the nearest integer, halves towards +infinity
Round(a) == FloorDiv(2 * a[1] + a[2], 2 * a[2])
\* JavaScript %: the sign of the result is the sign of the dividend
JsMod(i, m) == IF i >= 0 THEN i % Abs(m) ELSE -((-i) % Abs(m))

(* ------------------------------------------------------------------ *)
(* Values                                                             *)
(* ------------------------------------------------------------------ *)
\* a grid property that may be absent (undefined)
Undefined == [has |-> FALSE, v |-> 0]
Num(i) == [has |-> TRUE, v |-> i]
\* JavaScript truthiness of a numeric property: undefined and 0 are falsy
Truthy(p) == p.has /\ p.v # 0

NoId == "undefined"
NullGrid == [kind |-> "null", id |-> NoId, cols |-> Undefined, rows |-> Undefined,
             isStripGrid |-> FALSE]
\* a grid given as a bare id string: it has no id, cols, rows or isStripGrid property
StringGrid(s) == [kind |-> "string", id |-> s, cols |-> Undefined, rows |-> Undefined,
                  isStripGrid |-> FALSE]
ObjectGrid(i, c, r, f) == [kind |-> "object", id |-> i, cols |-> c, rows |-> r,
                           isStripGrid |-> f]

\* maxCellWidth = null (the default) or a number of inches
NullWidth == [isNull |-> TRUE, v |-> R(0)]
Width(q) == [isNull |-> FALSE, v |-> q]

(* ------------------------------------------------------------------ *)
(* getPageSizeFromGrid                                                *)
(* ------------------------------------------------------------------ *)
PageSize(w, h, name) == [widthInches |-> w, heightInches |-> h, pageSize |-> name]
\* no page size computed yet
NoPageSize == PageSize(0, 0, "none")

\* mutant: the legacy ids keep the page sizes their names say
gridToPageSizeLegacySizes ==
    [i \in {"4x6-single", "4x6-2cut", "4x6-4cut", "4x6-6cut", "strip-grid",
            "5x5-single", "2x4-vertical-2", "5x7-6cut"} |->
        IF i = "2x4-vertical-2" THEN PageSize(2, 4, "2x4")
        ELSE IF i = "5x7-6cut" THEN PageSize(5, 7, "5x7")
        ELSE PageSize(4, 6, "4x6")]

\* the keys of gridToPageSize; every entry is the 4x6 page
gridToPageSize ==
    [i \in {"4x6-single", "4x6-2cut", "4x6-4cut", "4x6-6cut", "strip-grid",
            "5x5-single", "2x4-vertical-2", "5x7-6cut"} |-> PageSize(4, 6, "4x6")]

standardSizes ==
    << [w |-> 2, h |-> 4, name |-> "2x4"],
       [w |-> 4, h |-> 6, name |-> "4x6"],
       [w |-> 5, h |-> 7, name |-> "5x7"],
       [w |-> 8, h |-> 10, name |-> "8x10"] >>

\* |widthInches - size.w| + |heightInches - size.h|
SizeDiff(widthInches, heightInches, size) ==
    RAdd(RAbs(RSub(widthInches, R(size.w))), RAbs(RSub(heightInches, R(size.h))))

\* the forEach over standardSizes: a later size replaces closest only when
\* it is strictly nearer
RECURSIVE ClosestFrom(_, _, _, _)
ClosestFrom(i, closest, widthInches, heightInches) ==
    IF i > Len(standardSizes) THEN closest
    ELSE LET size == standardSizes[i]
             diff == SizeDiff(widthInches, heightInches, size)
             minDiff == SizeDiff(widthInches, heightInches, closest)
         IN  ClosestFrom(i + 1, IF RLt(diff, minDiff) THEN size ELSE closest,
                         widthInches, heightInches)

\* const gridId = typeof grid === 'string' ? grid : grid.id
GridIdOf(grid) == grid.id

\* !grid: null, undefined and the empty string are falsy
Falsy(grid) == grid.kind = "null" \/ (grid.kind = "string" /\ grid.id = "")

\* the property names the object literal gridToPageSize inherits from
\* Object.prototype; gridToPageSize[name] is then a function (for '__proto__'
\* the prototype object), which is truthy
ObjectPrototype ==
    {"constructor", "hasOwnProperty", "isPrototypeOf", "propertyIsEnumerable",
     "toLocaleString", "toString", "valueOf", "__proto__", "__defineGetter__",
     "__defineSetter__", "__lookupGetter__", "__lookupSetter__"}

\* an inherited member returned as the page size: it has no widthInches,
\* heightInches or pageSize property (0 and "undefined" stand for the missing
\* properties)
InheritedMember == PageSize(0, 0, NoId)

getPageSizeFromGrid(grid) ==
    IF Falsy(grid) THEN PageSize(4, 6, "4x6")
    ELSE IF GridIdOf(grid) \in DOMAIN gridToPageSize THEN gridToPageSize[GridIdOf(grid)]
    ELSE IF GridIdOf(grid) \in ObjectPrototype THEN InheritedMember
    ELSE LET cols == IF Truthy(grid.cols) THEN grid.cols.v ELSE 1
             rows == IF Truthy(grid.rows) THEN grid.rows.v ELSE 1
             margin == <<1, 10>>
             widthInches == RAdd(R(2 * cols), RMul(margin, R(cols - 1)))
             heightInches == RAdd(R(3 * rows), RMul(margin, R(rows - 1)))
             closest == ClosestFrom(1, standardSizes[1], widthInches, heightInches)
         IN  PageSize(closest.w, closest.h, closest.name)

(* ------------------------------------------------------------------ *)
(* Canvas: the 2d context calls made on it, in order                  *)
(* ------------------------------------------------------------------ *)
NoCanvas == [created |-> FALSE, width |-> 0, height |-> 0, ops |-> <<>>]
\* document.createElement('canvas') followed by the width/height writes
NewCanvas(w, h) == [created |-> TRUE, width |-> w, height |-> h, ops |-> <<>>]

\* ctx.fillStyle = '#FFFFFF'; ctx.fillRect(x, y, w, h)
FillRect(x, y, w, h) ==
    [kind |-> "fillRect", src |-> 0, sx |-> R(0), sy |-> R(0), sw |-> R(0), sh |-> R(0),
     dx |-> R(x), dy |-> R(y), dw |-> R(w), dh |-> R(h), sub |-> <<>>]
\* ctx.drawImage(img, sx, sy, sw, sh, dx, dy, dw, dh) of a decoded photo
DrawImage(img, sx, sy, sw, sh, dx, dy, dw, dh) ==
    [kind |-> "drawImage", src |-> img.src, sx |-> R(sx), sy |-> R(sy),
     sw |-> R(sw), sh |-> R(sh), dx |-> dx, dy |-> dy, dw |-> dw, dh |-> dh,
     sub |-> <<>>]
\* ctx.drawImage(sourceCanvas, dx, dy): the whole source canvas, unscaled
DrawCanvas(source, dx, dy) ==
    [kind |-> "drawCanvas", src |-> 0, sx |-> R(0), sy |-> R(0),
     sw |-> R(source.width), sh |-> R(source.height), dx |-> R(dx), dy |-> R(dy),
     dw |-> R(source.width), dh |-> R(source.height), sub |-> source.ops]
Paint(canvas, op) == [canvas EXCEPT !.ops = Append(@, op)]

\* canvas.toDataURL('image/jpeg', 0.95): a JPEG of the canvas' size and content
NoResult == [mime |-> "none", quality |-> 0, width |-> 0, height |-> 0, ops |-> <<>>]
toDataURL(canvas) ==
    [mime |-> "image/jpeg", quality |-> 95, width |-> canvas.width,
     height |-> canvas.height, ops |-> canvas.ops]

\* a decoded Image: which photo it is the decode of, and its pixel size
NoImage == [src |-> 0, width |-> 0, height |-> 0]
Image(k, photo) == [src |-> k, width |-> photo.width, height |-> photo.height]

(* ------------------------------------------------------------------ *)
(* createGridComposite: layout                                        *)
(* ------------------------------------------------------------------ *)
\* const row = index % grid.rows
RowOf(index, rows) == JsMod(index, rows)
\* mutant: row-major fill, the column from the remainder
ColOfRowMajor(index, rows) == JsMod(index, rows)

\* const col = Math.floor(index / grid.rows)
ColOf(index, rows) == Floor(Norm(index, rows))

\* mutant: the page is divided without the 0.1 inch between the cells
AutoMaxCellWidthNoGaps(pageSize, cols, rows) ==
    RMin(Norm(pageSize.widthInches, cols), Norm(pageSize.heightInches, rows))

\* the automatic maxCellWidth from the page size
AutoMaxCellWidth(pageConfig, cols, rows) ==
    LET marginInches == <<1, 10>>
        availableWidth == RSub(R(pageConfig.widthInches), RMul(marginInches, R(cols - 1)))
        availableHeight == RSub(R(pageConfig.heightInches), RMul(marginInches, R(rows - 1)))
    IN  RMin(RDiv(availableWidth, R(cols)), RDiv(availableHeight, R(rows)))

ImgAspect(img) == Norm(img.width, img.height)

\* the cellDimensions Map after the first images.forEach, as its entries in
\* insertion order
RECURSIVE CellDimensions(_, _, _, _, _)
CellDimensions(imgs, rows, maxCellWidth, i, map) ==
    IF i > Len(imgs) THEN map
    ELSE LET index == i - 1
             cellKey == <<ColOf(index, rows), RowOf(index, rows)>>
             imgAspect == ImgAspect(imgs[i])
             wide == RLt(R(1), imgAspect)
             entry == [key |-> cellKey, aspect |-> imgAspect,
                       minWidth |-> IF wide THEN maxCellWidth
                                    ELSE RDiv(maxCellWidth, imgAspect),
                       minHeight |-> IF wide THEN RDiv(maxCellWidth, imgAspect)
                                     ELSE maxCellWidth]
             has == \E j \in 1..Len(map) : map[j].key = cellKey
             next == IF has
                       THEN [j \in 1..Len(map) |->
                               IF map[j].key = cellKey
                                 THEN [map[j] EXCEPT !.aspect = RMax(@, imgAspect)]
                                 ELSE map[j]]
                       ELSE Append(map, entry)
         IN  CellDimensions(imgs, rows, maxCellWidth, i + 1, next)

\* mutant: the maxima are taken over the minWidth and minHeight of the cells
RECURSIVE MaxCellInchesOfMinima(_, _, _, _)
MaxCellInchesOfMinima(map, maxCellWidth, i, acc) ==
    IF i > Len(map) THEN acc
    ELSE MaxCellInchesOfMinima(map, maxCellWidth, i + 1,
            <<RMax(acc[1], map[i].minWidth), RMax(acc[2], map[i].minHeight)>>)

\* the cellDimensions.forEach: <<maxCellWidthInches, maxCellHeightInches>>
RECURSIVE MaxCellInches(_, _, _, _)
MaxCellInches(map, maxCellWidth, i, acc) ==
    IF i > Len(map) THEN acc
    ELSE LET dims == map[i]
         IN  MaxCellInches(map, maxCellWidth, i + 1,
                IF RLt(R(1), dims.aspect)
                  THEN <<acc[1], RMax(acc[2], RDiv(maxCellWidth, dims.aspect))>>
                  ELSE <<RMax(acc[1], RMul(maxCellWidth, dims.aspect)), acc[2]>>)

MarginSize(cellWidthPx, cellHeightPx, marginPercent) ==
    Round(RMul(R(IF cellWidthPx < cellHeightPx THEN cellWidthPx ELSE cellHeightPx),
               Norm(marginPercent, 100)))

\* mutant: the leading margin is left out
CanvasExtentNoLeadingMargin(marginSize, cellPx, count) == (cellPx + marginSize) * count

CanvasExtent(marginSize, cellPx, count) == marginSize + (cellPx + marginSize) * count

CellOrigin(marginSize, cellPx, pos) == marginSize + pos * (cellPx + marginSize)

\* the uniform cell, the margin and the canvas size for the decoded images
GridLayout(imgs, cols, rows, dpi, marginPercent, maxCellWidth) ==
    LET map == CellDimensions(imgs, rows, maxCellWidth, 1, <<>>)
        inches == MaxCellInches(map, maxCellWidth, 1, <<maxCellWidth, maxCellWidth>>)
        cellWidthPx == Round(RMul(inches[1], R(dpi)))
        cellHeightPx == Round(RMul(inches[2], R(dpi)))
        marginSize == MarginSize(cellWidthPx, cellHeightPx, marginPercent)
    IN  [cellWidthPx |-> cellWidthPx, cellHeightPx |-> cellHeightPx,
         marginSize |-> marginSize,
         canvasWidth |-> CanvasExtent(marginSize, cellWidthPx, cols),
         canvasHeight |-> CanvasExtent(marginSize, cellHeightPx, rows)]

\* mutant: a "cover" fit, the comparison of the aspects reversed
GridPlacementCover(img, cellX, cellY, cellWidthPx, cellHeightPx) ==
    LET imgAspect == ImgAspect(img)
        cellAspect == Norm(cellWidthPx, cellHeightPx)
    IN  IF RLt(imgAspect, cellAspect)
          THEN LET drawHeight == RDiv(R(cellWidthPx), imgAspect)
               IN  [drawWidth |-> R(cellWidthPx), drawHeight |-> drawHeight,
                    drawX |-> R(cellX),
                    drawY |-> RAdd(R(cellY), RDiv(RSub(R(cellHeightPx), drawHeight), R(2)))]
          ELSE LET drawWidth == RMul(R(cellHeightPx), imgAspect)
               IN  [drawWidth |-> drawWidth, drawHeight |-> R(cellHeightPx),
                    drawX |-> RAdd(R(cellX), RDiv(RSub(R(cellWidthPx), drawWidth), R(2))),
                    drawY |-> R(cellY)]

\* the destination rectangle of an image in the cell at (cellX, cellY)
GridPlacement(img, cellX, cellY, cellWidthPx, cellHeightPx) ==
    LET imgAspect == ImgAspect(img)
        cellAspect == Norm(cellWidthPx, cellHeightPx)
    IN  IF RLt(cellAspect, imgAspect)
          THEN LET drawHeight == RDiv(R(cellWidthPx), imgAspect)
               IN  [drawWidth |-> R(cellWidthPx), drawHeight |-> drawHeight,
                    drawX |-> R(cellX),
                    drawY |-> RAdd(R(cellY), RDiv(RSub(R(cellHeightPx), drawHeight), R(2)))]
          ELSE LET drawWidth == RMul(R(cellHeightPx), imgAspect)
               IN  [drawWidth |-> drawWidth, drawHeight |-> R(cellHeightPx),
                    drawX |-> RAdd(R(cellX), RDiv(RSub(R(cellWidthPx), drawWidth), R(2))),
                    drawY |-> R(cellY)]

\* the second images.forEach: every image drawn whole into its cell
RECURSIVE GridDraw(_, _, _, _, _)
GridDraw(canvas, imgs, rows, lay, i) ==
    IF i > Len(imgs) THEN canvas
    ELSE LET index == i - 1
             img == imgs[i]
             cellX == CellOrigin(lay.marginSize, lay.cellWidthPx, ColOf(index, rows))
             cellY == CellOrigin(lay.marginSize, lay.cellHeightPx, RowOf(index, rows))
             p == GridPlacement(img, cellX, cellY, lay.cellWidthPx, lay.cellHeightPx)
         IN  GridDraw(Paint(canvas, DrawImage(img, 0, 0, img.width, img.height,
                                              p.drawX, p.drawY, p.drawWidth, p.drawHeight)),
                      imgs, rows, lay, i + 1)

\* the canvas createGridComposite builds once every image is decoded
GridCanvas(imgs, cols, rows, dpi, marginPercent, maxCellWidth) ==
    LET lay == GridLayout(imgs, cols, rows, dpi, marginPercent, maxCellWidth)
        blank == Paint(NewCanvas(lay.canvasWidth, lay.canvasHeight),
                       FillRect(0, 0, lay.canvasWidth, lay.canvasHeight))
    IN  GridDraw(blank, imgs, rows, lay, 1)

(* ------------------------------------------------------------------ *)
(* createStripGridComposite: layout                                   *)
(* ------------------------------------------------------------------ *)
stripWidthInches == 2
stripHeightInches == 6
canvasWidthInches == 4
canvasHeightInches == 6

StripWidthPx(dpi) == Round(R(stripWidthInches * dpi))
StripHeightPx(dpi) == Round(R(stripHeightInches * dpi))
CanvasWidthPx(dpi) == Round(R(canvasWidthInches * dpi))
CanvasHeightPx(dpi) == Round(R(canvasHeightInches * dpi))
\* cellHeightInches = stripHeightInches / 4
StripCellHeightPx(dpi) == Round(RMul(Norm(stripHeightInches, 4), R(dpi)))

StripCellY(index, cellHeightPx) == index * cellHeightPx

\* mutant: the fit-to-width height multiplies by the aspect instead of dividing
StripPlacementStretch(img, cellY, cellWidthPx, cellHeightPx) ==
    LET imgAspect == ImgAspect(img)
        cellAspect == Norm(cellWidthPx, cellHeightPx)
    IN  IF RLt(cellAspect, imgAspect)
          THEN LET drawHeight == RMul(R(cellWidthPx), imgAspect)
               IN  [drawWidth |-> R(cellWidthPx), drawHeight |-> drawHeight,
                    drawX |-> R(0),
                    drawY |-> RAdd(R(cellY), RDiv(RSub(R(cellHeightPx), drawHeight), R(2)))]
          ELSE LET drawWidth == RMul(R(cellHeightPx), imgAspect)
               IN  [drawWidth |-> drawWidth, drawHeight |-> R(cellHeightPx),
                    drawX |-> RDiv(RSub(R(cellWidthPx), drawWidth), R(2)),
                    drawY |-> R(cellY)]

\* mutant: a fit-to-height image is drawn at the cell's left edge
StripPlacementLeftAligned(img, cellY, cellWidthPx, cellHeightPx) ==
    LET imgAspect == ImgAspect(img)
        cellAspect == Norm(cellWidthPx, cellHeightPx)
    IN  IF RLt(cellAspect, imgAspect)
          THEN LET drawHeight == RDiv(R(cellWidthPx), imgAspect)
               IN  [drawWidth |-> R(cellWidthPx), drawHeight |-> drawHeight,
                    drawX |-> R(0),
                    drawY |-> RAdd(R(cellY), RDiv(RSub(R(cellHeightPx), drawHeight), R(2)))]
          ELSE LET drawWidth == RMul(R(cellHeightPx), imgAspect)
               IN  [drawWidth |-> drawWidth, drawHeight |-> R(cellHeightPx),
                    drawX |-> R(0),
                    drawY |-> R(cellY)]

StripPlacement(img, cellY, cellWidthPx, cellHeightPx) ==
    LET imgAspect == ImgAspect(img)
        cellAspect == Norm(cellWidthPx, cellHeightPx)
    IN  IF RLt(cellAspect, imgAspect)
          THEN LET drawHeight == RDiv(R(cellWidthPx), imgAspect)
               IN  [drawWidth |-> R(cellWidthPx), drawHeight |-> drawHeight,
                    drawX |-> R(0),
                    drawY |-> RAdd(R(cellY), RDiv(RSub(R(cellHeightPx), drawHeight), R(2)))]
          ELSE LET drawWidth == RMul(R(cellHeightPx), imgAspect)
               IN  [drawWidth |-> drawWidth, drawHeight |-> R(cellHeightPx),
                    drawX |-> RDiv(RSub(R(cellWidthPx), drawWidth), R(2)),
                    drawY |-> R(cellY)]

RECURSIVE StripDraw(_, _, _, _)
StripDraw(canvas, imgs, dpi, i) ==
    IF i > Len(imgs) THEN canvas
    ELSE LET index == i - 1
             img == imgs[i]
             cellWidthPx == StripWidthPx(dpi)
             cellHeightPx == StripCellHeightPx(dpi)
             p == StripPlacement(img, StripCellY(index, cellHeightPx),
                                 cellWidthPx, cellHeightPx)
         IN  StripDraw(Paint(canvas, DrawImage(img, 0, 0, img.width, img.height,
                                               p.drawX, p.drawY, p.drawWidth, p.drawHeight)),
                       imgs, dpi, i + 1)

\* the intermediate 2x6 strip canvas
StripCanvas(imgs, dpi) ==
    StripDraw(Paint(NewCanvas(StripWidthPx(dpi), StripHeightPx(dpi)),
                    FillRect(0, 0, StripWidthPx(dpi), StripHeightPx(dpi))),
              imgs, dpi, 1)

\* mutant: the second copy is placed at the strip's width in inches
RightStripXInches(dpi) == stripWidthInches

\* x of the second copy of the strip
RightStripX(dpi) == StripWidthPx(dpi)

\* the final 4x6 canvas: the strip drawn at x = 0 and at x = stripWidthPx
StripFinalCanvas(strip, dpi) ==
    LET blank == Paint(NewCanvas(CanvasWidthPx(dpi), CanvasHeightPx(dpi)),
                       FillRect(0, 0, CanvasWidthPx(dpi), CanvasHeightPx(dpi)))
    IN  Paint(Paint(blank, DrawCanvas(strip, 0, 0)),
              DrawCanvas(strip, RightStripX(dpi), 0))

(* ------------------------------------------------------------------ *)
(* Errors                                                             *)
(* ------------------------------------------------------------------ *)
\* an Error: its message template and the counts the message carries
Err(m, n, e, a, k) ==
    [message |-> m, names |-> n, expected |-> e, actual |-> a, source |-> k]
NoError == Err("", {}, 0, 0, 0)
ErrNoPhotos == Err("No photos provided", {}, 0, 0, 0)
ErrInvalidGrid == Err("Invalid grid configuration", {}, 0, 0, 0)
ErrStripGot(n) ==
    Err("Strip grid requires exactly 4 photos, got ${photos.length}",
        {"expected", "actual"}, 4, n, 0)
ErrStrip == Err("Strip grid requires exactly 4 photos", {"expected"}, 4, 0, 0)
\* mutant: the two counts of the message exchanged
ErrExpectedSwapped(t, n) ==
    Err("Expected ${totalCells} photos, got ${photos.length}",
        {"expected", "actual"}, n, t, 0)
ErrExpected(t, n) ==
    Err("Expected ${totalCells} photos, got ${photos.length}",
        {"expected", "actual"}, t, n, 0)
\* the error event of image k, the rejection reason of its promise
ErrDecode(k) == Err("error event", {}, 0, 0, k)

(* ------------------------------------------------------------------ *)
(* Inputs                                                             *)
(* ------------------------------------------------------------------ *)
Calls == {"a", "b"}

\* the default dpi
PrintDpi == 300
DpiValues == (1..MaxDpi) \cup {PrintDpi}
\* the default marginPercent, and the one the edit screen passes
DefaultMarginPercent == 2
MarginPercents == {DefaultMarginPercent, 3}
MaxCellWidths == {NullWidth, Width(R(1))}

\* a photo data URL: the pixel size of the image it encodes, and whether the
\* browser can decode it
Photo(w, h, ok) == [width |-> w, height |-> h, ok |-> ok]
\* decodable photos: wide, 4:3 and tall
PhotoSizes == {Photo(2, 1, TRUE), Photo(4, 3, TRUE), Photo(3, 4, TRUE)}
\* 4:3 photos, decodable or corrupt
PhotoData == {Photo(4, 3, TRUE), Photo(4, 3, FALSE)}
NoPhotos == [defined |-> FALSE, list |-> <<>>]
Photos(l) == [defined |-> TRUE, list |-> l]
\* the lists of n decodable photos of every mix of sizes
PhotoLists(n) == {Photos(l) : l \in [1..n -> PhotoSizes]}
\* the lists of up to MaxPhotos photos of one size, any of them corrupt
MixedLists == UNION {{Photos(l) : l \in [1..n -> PhotoData]} : n \in 0..MaxPhotos}

DimValues == {Undefined, Num(-1), Num(0)} \cup {Num(i) : i \in 1..MaxDim}
GridIds == {NoId, "4x6-4cut", "strip-grid"}
AllGrids ==
    {NullGrid, StringGrid("strip-grid")} \cup
    {ObjectGrid(i, c, r, f) : i \in GridIds, c \in DimValues, r \in DimValues,
                              f \in BOOLEAN}

GridCall(photos, grid, dpi, marginPercent, maxCellWidth) ==
    [entry |-> "createGridComposite", photos |-> photos, grid |-> grid, dpi |-> dpi,
     marginPercent |-> marginPercent, maxCellWidth |-> maxCellWidth]
StripCall(photos, dpi) ==
    [entry |-> "createStripGridComposite", photos |-> photos, grid |-> NullGrid,
     dpi |-> dpi, marginPercent |-> DefaultMarginPercent, maxCellWidth |-> NullWidth]

\* every grid, with a missing list and lists of every length with corrupt photos,
\* other arguments default
ValidationArgs ==
    {GridCall(p, g, PrintDpi, DefaultMarginPercent, NullWidth) :
        p \in MixedLists \cup {NoPhotos}, g \in AllGrids}
\* well-formed grids with a matching list of every mix of photo sizes
GeometryArgs ==
    UNION {{GridCall(p, ObjectGrid(i, Num(d[1]), Num(d[2]), FALSE), dpi, m, w) :
              p \in PhotoLists(d[1] * d[2]), i \in {NoId, "4x6-4cut"}, dpi \in DpiValues,
              m \in MarginPercents, w \in MaxCellWidths} :
           d \in {x \in (1..MaxDim) \X (1..MaxDim) : x[1] * x[2] <= MaxPhotos}}
\* direct calls of createStripGridComposite
StripArgs ==
    {StripCall(p, d) :
        p \in {NoPhotos} \cup MixedLists \cup UNION {PhotoLists(n) : n \in 0..MaxPhotos},
        d \in DpiValues}
Args == ValidationArgs \cup GeometryArgs \cup StripArgs

(* ------------------------------------------------------------------ *)
(* State                                                              *)
(* ------------------------------------------------------------------ *)
VARIABLES
    args,          \* the arguments of each call
    pc,            \* "idle", "awaiting" (suspended at the await), "resolved", "rejected"
    fn,            \* the function suspended at the await: "grid", "strip" or "none"
    pageConfig,    \* the local pageConfig, or the value getPageSizeFromGrid returned
    maxCellWidth,  \* the local maxCellWidth after defaulting
    decode,        \* per photo, its Image: "pending", "loaded" or "failed"
    images,        \* the values Promise.all has collected, by index
    join,          \* the Promise.all promise: "none", "pending", "fulfilled", "rejected"
    reason,        \* the index of the image whose error rejected the join
    stripCanvas,   \* the intermediate strip canvas
    canvas,        \* the output canvas
    result,        \* the data URL the call's promise resolved with
    error,         \* the error the call's promise rejected with
    reordered,     \* some image's callback fired before an earlier image's
    interleaved,   \* a callback of the call fired between two callbacks of another call
    sessionData,   \* the session the screens read and updateSession writes
    route,         \* the path of the last navigate()
    containerRefs, \* EditScreen: per photo, whether containerRefs.current has its element
    handleNext,    \* EditScreen: the frame of the running handleNext
    capturedPhotos, \* CameraSettings: the capturedPhotos state
    handleCapture, \* CameraSettings: the handleCapture calls whose image is loading
    timeouts,      \* CameraSettings: the pending setTimeout callbacks
    autoCapture,   \* CameraSettings: the autoCapture state
    effectDeps,    \* CameraSettings: the dependencies the face detection effect last ran with
    intervals      \* CameraSettings: the setInterval timers started and not cleared

\* the state of the screens
uiVars == <<sessionData, route, containerRefs, handleNext, capturedPhotos, handleCapture,
            timeouts, autoCapture, effectDeps, intervals>>

vars == <<args, pc, fn, pageConfig, maxCellWidth, decode, images, join, reason,
          stripCanvas, canvas, result, error, reordered, interleaved, uiVars>>

\* the calls a specification runs
MainCalls == {"a"}
(* ------------------------------------------------------------------ *)
(* The screens' values                                                *)
(* ------------------------------------------------------------------ *)
\* a photo of the session, a data URL: its image, whether it decodes, and
\* where it comes from (0: nowhere, n > 0: the n-th capture of the screen,
\* -n: the edit canvas's JPEG of capture n)
SessionPhoto(w, h, ok, from) == [width |-> w, height |-> h, ok |-> ok, from |-> from]
NoPhoto == SessionPhoto(0, 0, FALSE, 0)

\* a compositeImage: null, one of the photos, or the compositor's data URL
NoCompositeImage == [kind |-> "null", photo |-> NoPhoto, composite |-> NoResult]
PhotoImage(p) == [kind |-> "photo", photo |-> p, composite |-> NoResult]
CompositeImage(r) == [kind |-> "composite", photo |-> NoPhoto, composite |-> r]

\* the session before a screen wrote it
NoSession ==
    [capturedPhotos |-> NoPhotos, selectedGrid |-> NullGrid, editedPhotos |-> NoPhotos,
     compositeImage |-> NoCompositeImage]

\* handleNext: not called
NotCalled ==
    [pc |-> "none", i |-> 0, img |-> "none", edited |-> <<>>, finalPhotos |-> <<>>,
     compositeImage |-> NoCompositeImage]

\* the effect has not run
NoDeps == [ran |-> FALSE, autoCapture |-> FALSE, isComplete |-> FALSE]

\* no screen is mounted
NoScreen ==
    /\ sessionData = NoSession
    /\ route = "/"
    /\ containerRefs = <<>>
    /\ handleNext = NotCalled
    /\ capturedPhotos = <<>>
    /\ handleCapture = <<>>
    /\ timeouts = <<>>
    /\ autoCapture = FALSE
    /\ effectDeps = NoDeps
    /\ intervals = 0

Init ==
    /\ args \in {[c \in Calls |-> IF c \in MainCalls THEN x
                                   ELSE StripCall(NoPhotos, PrintDpi)] : x \in Args}
    /\ pc = [c \in Calls |-> "idle"]
    /\ fn = [c \in Calls |-> "none"]
    /\ pageConfig = [c \in Calls |-> NoPageSize]
    /\ maxCellWidth = [c \in Calls |-> R(0)]
    /\ decode = [c \in Calls |-> <<>>]
    /\ images = [c \in Calls |-> <<>>]
    /\ join = [c \in Calls |-> "none"]
    /\ reason = [c \in Calls |-> 0]
    /\ stripCanvas = [c \in Calls |-> NoCanvas]
    /\ canvas = [c \in Calls |-> NoCanvas]
    /\ result = [c \in Calls |-> NoResult]
    /\ error = [c \in Calls |-> NoError]
    /\ reordered = [c \in Calls |-> FALSE]
    /\ interleaved = [c \in Calls |-> FALSE]
    /\ NoScreen

(* ------------------------------------------------------------------ *)
(* Steps                                                              *)
(* ------------------------------------------------------------------ *)
\* a local of call c is written; the other calls' locals are their own
Set(f, c, v) == [f EXCEPT ![c] = v]

\* mutant: the continuation is scheduled like any other event
ContinuationDeferred(c) == FALSE

\* the continuation of a call whose join has settled runs (as a microtask)
\* before any further image event is dispatched
ContinuationReady(c) == pc[c] = "awaiting" /\ join[c] \in {"fulfilled", "rejected"}

\* the call's promise rejects before anything was started
Throw(c, e) ==
    /\ pc' = Set(pc, c, "rejected")
    /\ error' = Set(error, c, e)
    /\ UNCHANGED <<fn, maxCellWidth, decode, images, join, reason>>

\* photos.map(...): one Image per photo with src set, joined by Promise.all
StartDecodes(c, f, n, w) ==
    /\ pc' = Set(pc, c, "awaiting")
    /\ fn' = Set(fn, c, f)
    /\ maxCellWidth' = Set(maxCellWidth, c, w)
    /\ decode' = Set(decode, c, [k \in 1..n |-> "pending"])
    /\ images' = Set(images, c, [k \in 1..n |-> NoImage])
    /\ join' = Set(join, c, "pending")
    /\ UNCHANGED <<reason, error>>

\* photos.length, with !photos for a missing list
MissingOrEmpty(photos) == ~photos.defined \/ Len(photos.list) = 0

\* createStripGridComposite up to its await
StripEntry(c, photos) ==
    IF ~photos.defined \/ Len(photos.list) # 4
      THEN Throw(c, ErrStrip)
      ELSE StartDecodes(c, "strip", Len(photos.list), R(0))

\* !grid || !grid.cols || !grid.rows
InvalidGrid(grid) ==
    grid.kind = "null" \/ ~Truthy(grid.cols) \/ ~Truthy(grid.rows)

\* mutant: only the id routes to the strip compositor
StripRoutedByIdOnly(grid) == grid.kind = "object" /\ grid.id = "strip-grid"

\* grid.id === 'strip-grid' || grid.isStripGrid
StripRouted(grid) ==
    grid.kind = "object" /\ (grid.id = "strip-grid" \/ grid.isStripGrid)

\* the call gets past the four checks, to const pageConfig = getPageSizeFromGrid(grid)
ReachesPageConfig(photos, grid) ==
    /\ ~MissingOrEmpty(photos) /\ ~InvalidGrid(grid) /\ ~StripRouted(grid)
    /\ Len(photos.list) = grid.cols.v * grid.rows.v

\* createGridComposite up to its await
createGridComposite(c) ==
    /\ pc[c] = "idle"
    /\ args[c].entry = "createGridComposite"
    /\ \A o \in Calls : ~ContinuationReady(o)
    /\ LET photos == args[c].photos
           grid == args[c].grid
           n == Len(photos.list)
       IN  IF MissingOrEmpty(photos) THEN Throw(c, ErrNoPhotos)
           ELSE IF InvalidGrid(grid) THEN Throw(c, ErrInvalidGrid)
           ELSE IF StripRouted(grid)
             THEN IF n # 4 THEN Throw(c, ErrStripGot(n))
                  ELSE StripEntry(c, photos)
           ELSE LET totalCells == grid.cols.v * grid.rows.v
                IN  IF n # totalCells THEN Throw(c, ErrExpected(totalCells, n))
                    ELSE StartDecodes(c, "grid", n,
                           IF args[c].maxCellWidth.isNull
                             THEN AutoMaxCellWidth(getPageSizeFromGrid(grid),
                                                   grid.cols.v, grid.rows.v)
                             ELSE args[c].maxCellWidth.v)
    /\ pageConfig' = Set(pageConfig, c,
                         IF ReachesPageConfig(args[c].photos, args[c].grid)
                           THEN getPageSizeFromGrid(args[c].grid) ELSE pageConfig[c])
    /\ UNCHANGED <<args, stripCanvas, canvas, result, reordered, interleaved>>
    /\ UNCHANGED uiVars

\* a direct call of createStripGridComposite up to its await
createStripGridComposite(c) ==
    /\ pc[c] = "idle"
    /\ args[c].entry = "createStripGridComposite"
    /\ \A o \in Calls : ~ContinuationReady(o)
    /\ StripEntry(c, args[c].photos)
    /\ UNCHANGED <<args, pageConfig, stripCanvas, canvas, result, reordered, interleaved>>
    /\ UNCHANGED uiVars

\* mutant: values are kept in the order the promises resolve
StoreValueInArrivalOrder(values, k, img) ==
    LET free == {i \in DOMAIN values : values[i] = NoImage}
        first == CHOOSE i \in free : \A j \in free : i <= j
    IN  [values EXCEPT ![first] = img]

\* Promise.all keeps the value of promise k at index k
StoreValue(values, k, img) == [values EXCEPT ![k] = img]

\* mutant: the join fulfils only when the last promise of the list resolves last
JoinAfterLoadLastInList(j, dec, k) ==
    IF j = "pending" /\ k = Len(dec) /\ \A i \in DOMAIN dec \ {k} : dec[i] = "loaded"
      THEN "fulfilled" ELSE j

\* Promise.all fulfils once every promise has resolved
JoinAfterLoad(j, dec, k) ==
    IF j = "pending" /\ \A i \in DOMAIN dec \ {k} : dec[i] = "loaded"
      THEN "fulfilled" ELSE j

\* mutant: a rejection does not settle the join
JoinAfterErrorIgnored(j) == j

\* Promise.all rejects with the first rejection
JoinAfterError(j) == IF j = "pending" THEN "rejected" ELSE j

\* another call is suspended with some of its callbacks fired and others to come
BetweenCallbacks(c) ==
    \E o \in Calls \ {c} :
        /\ pc[o] = "awaiting"
        /\ \E k \in DOMAIN decode[o] : decode[o][k] # "pending"
        /\ \E k \in DOMAIN decode[o] : decode[o][k] = "pending"

\* img.onload = () => resolve(img): the browser decoded the photo
onload(c, k) ==
    /\ k \in DOMAIN decode[c]
    /\ decode[c][k] = "pending"
    /\ args[c].photos.list[k].ok
    /\ \A o \in Calls : ~ContinuationReady(o)
    /\ decode' = Set(decode, c, [decode[c] EXCEPT ![k] = "loaded"])
    /\ images' = Set(images, c, StoreValue(images[c], k, Image(k, args[c].photos.list[k])))
    /\ join' = Set(join, c, JoinAfterLoad(join[c], decode[c], k))
    /\ reordered' = Set(reordered, c,
                        reordered[c] \/ \E j \in 1..(k - 1) : decode[c][j] = "pending")
    /\ interleaved' = Set(interleaved, c, interleaved[c] \/ BetweenCallbacks(c))
    /\ UNCHANGED <<args, pc, fn, pageConfig, maxCellWidth, reason, stripCanvas, canvas,
                   result, error>>
    /\ UNCHANGED uiVars

\* img.onerror = reject: the browser could not decode the photo
onerror(c, k) ==
    /\ k \in DOMAIN decode[c]
    /\ decode[c][k] = "pending"
    /\ ~args[c].photos.list[k].ok
    /\ \A o \in Calls : ~ContinuationReady(o)
    /\ decode' = Set(decode, c, [decode[c] EXCEPT ![k] = "failed"])
    /\ join' = Set(join, c, JoinAfterError(join[c]))
    /\ reason' = Set(reason, c, IF join[c] = "pending" THEN k ELSE reason[c])
    /\ reordered' = Set(reordered, c,
                        reordered[c] \/ \E j \in 1..(k - 1) : decode[c][j] = "pending")
    /\ interleaved' = Set(interleaved, c, interleaved[c] \/ BetweenCallbacks(c))
    /\ UNCHANGED <<args, pc, fn, pageConfig, maxCellWidth, images, stripCanvas, canvas,
                   result, error>>
    /\ UNCHANGED uiVars

\* mutant: one canvas element is reused by every invocation
createGridCompositeResumeSharedCanvas(c) ==
    /\ pc[c] = "awaiting" /\ fn[c] = "grid" /\ join[c] = "fulfilled"
    /\ LET grid == args[c].grid
           cv == GridCanvas(images[c], grid.cols.v, grid.rows.v, args[c].dpi,
                            args[c].marginPercent, maxCellWidth[c])
       IN  /\ canvas' = [o \in Calls |-> cv]
           /\ result' = Set(result, c, toDataURL(cv))
    /\ pc' = Set(pc, c, "resolved")
    /\ UNCHANGED <<args, fn, pageConfig, maxCellWidth, decode, images, join, reason,
                   stripCanvas, error, reordered, interleaved>>
    /\ UNCHANGED uiVars

\* createGridComposite after the await: lay out, draw, encode
createGridCompositeResume(c) ==
    /\ pc[c] = "awaiting" /\ fn[c] = "grid" /\ join[c] = "fulfilled"
    /\ LET grid == args[c].grid
           cv == GridCanvas(images[c], grid.cols.v, grid.rows.v, args[c].dpi,
                            args[c].marginPercent, maxCellWidth[c])
       IN  /\ canvas' = Set(canvas, c, cv)
           /\ result' = Set(result, c, toDataURL(cv))
    /\ pc' = Set(pc, c, "resolved")
    /\ UNCHANGED <<args, fn, pageConfig, maxCellWidth, decode, images, join, reason,
                   stripCanvas, error, reordered, interleaved>>
    /\ UNCHANGED uiVars

\* createGridComposite's catch: log and rethrow
createGridCompositeCatch(c) ==
    /\ pc[c] = "awaiting" /\ fn[c] = "grid" /\ join[c] = "rejected"
    /\ error' = Set(error, c, ErrDecode(reason[c]))
    /\ pc' = Set(pc, c, "rejected")
    /\ UNCHANGED <<args, fn, pageConfig, maxCellWidth, decode, images, join, reason,
                   stripCanvas, canvas, result, reordered, interleaved>>
    /\ UNCHANGED uiVars

\* mutant: a white margin marginPercent pixels wide is painted on the left edge
createStripGridCompositeResumeWithMargin(c) ==
    /\ pc[c] = "awaiting" /\ fn[c] = "strip" /\ join[c] = "fulfilled"
    /\ LET strip == StripCanvas(images[c], args[c].dpi)
           cv == Paint(StripFinalCanvas(strip, args[c].dpi),
                       FillRect(0, 0, args[c].marginPercent, CanvasHeightPx(args[c].dpi)))
       IN  /\ stripCanvas' = Set(stripCanvas, c, strip)
           /\ canvas' = Set(canvas, c, cv)
           /\ result' = Set(result, c, toDataURL(cv))
    /\ pc' = Set(pc, c, "resolved")
    /\ UNCHANGED <<args, fn, pageConfig, maxCellWidth, decode, images, join, reason, error,
                   reordered, interleaved>>
    /\ UNCHANGED uiVars

\* createStripGridComposite after the await: strip, duplicate, encode
createStripGridCompositeResume(c) ==
    /\ pc[c] = "awaiting" /\ fn[c] = "strip" /\ join[c] = "fulfilled"
    /\ LET strip == StripCanvas(images[c], args[c].dpi)
           cv == StripFinalCanvas(strip, args[c].dpi)
       IN  /\ stripCanvas' = Set(stripCanvas, c, strip)
           /\ canvas' = Set(canvas, c, cv)
           /\ result' = Set(result, c, toDataURL(cv))
    /\ pc' = Set(pc, c, "resolved")
    /\ UNCHANGED <<args, fn, pageConfig, maxCellWidth, decode, images, join, reason, error,
                   reordered, interleaved>>
    /\ UNCHANGED uiVars

\* the await in createStripGridComposite throws the rejection reason
createStripGridCompositeThrow(c) ==
    /\ pc[c] = "awaiting" /\ fn[c] = "strip" /\ join[c] = "rejected"
    /\ error' = Set(error, c, ErrDecode(reason[c]))
    /\ pc' = Set(pc, c, "rejected")
    /\ UNCHANGED <<args, fn, pageConfig, maxCellWidth, decode, images, join, reason,
                   stripCanvas, canvas, result, reordered, interleaved>>
    /\ UNCHANGED uiVars

Next ==
    \E c \in MainCalls :
        \/ createGridComposite(c)
        \/ createStripGridComposite(c)
        \/ \E k \in 1..(MaxPhotos + 1) : onload(c, k)
        \/ \E k \in 1..(MaxPhotos + 1) : onerror(c, k)
        \/ createGridCompositeResume(c)
        \/ createGridCompositeCatch(c)
        \/ createStripGridCompositeResume(c)
        \/ createStripGridCompositeThrow(c)

Spec == Init /\ [][Next]_vars

(* ------------------------------------------------------------------ *)
(* Two invocations in flight at once                                  *)
(* ------------------------------------------------------------------ *)
\* the photos of the concurrent calls: a wide, a tall and a corrupt one
ConcurrentPhotos == {Photo(2, 1, TRUE), Photo(3, 4, TRUE), Photo(4, 3, FALSE)}

\* 1x2 grid calls, strip-routed grid calls and direct strip calls
ConcurrentArgs ==
    {GridCall(Photos(<<p, q>>), ObjectGrid(NoId, Num(1), Num(2), FALSE), dpi,
              DefaultMarginPercent, NullWidth) :
        p \in ConcurrentPhotos, q \in ConcurrentPhotos, dpi \in 1..MaxDpi}
    \cup {GridCall(Photos(<<Photo(2, 1, TRUE), Photo(3, 4, TRUE), Photo(4, 3, TRUE), p>>),
                   ObjectGrid("strip-grid", Num(1), Num(4), FALSE), 1,
                   DefaultMarginPercent, NullWidth) : p \in ConcurrentPhotos}
    \cup {StripCall(Photos(<<Photo(4, 3, TRUE), Photo(3, 4, TRUE), Photo(2, 1, TRUE), p>>), 1) :
            p \in ConcurrentPhotos}

InitConcurrent ==
    /\ args \in [Calls -> ConcurrentArgs]
    /\ pc = [c \in Calls |-> "idle"]
    /\ fn = [c \in Calls |-> "none"]
    /\ pageConfig = [c \in Calls |-> NoPageSize]
    /\ maxCellWidth = [c \in Calls |-> R(0)]
    /\ decode = [c \in Calls |-> <<>>]
    /\ images = [c \in Calls |-> <<>>]
    /\ join = [c \in Calls |-> "none"]
    /\ reason = [c \in Calls |-> 0]
    /\ stripCanvas = [c \in Calls |-> NoCanvas]
    /\ canvas = [c \in Calls |-> NoCanvas]
    /\ result = [c \in Calls |-> NoResult]
    /\ error = [c \in Calls |-> NoError]
    /\ reordered = [c \in Calls |-> FALSE]
    /\ interleaved = [c \in Calls |-> FALSE]
    /\ NoScreen

\* every call takes its steps; the event loop picks any enabled one
NextConcurrent ==
    \E c \in Calls :
        \/ createGridComposite(c)
        \/ createStripGridComposite(c)
        \/ \E k \in 1..(MaxPhotos + 1) : onload(c, k)
        \/ \E k \in 1..(MaxPhotos + 1) : onerror(c, k)
        \/ createGridCompositeResume(c)
        \/ createGridCompositeCatch(c)
        \/ createStripGridCompositeResume(c)
        \/ createStripGridCompositeThrow(c)

SpecConcurrent == InitConcurrent /\ [][NextConcurrent]_vars

(* ------------------------------------------------------------------ *)
(* getPageSizeFromGrid called on its own                              *)
(* ------------------------------------------------------------------ *)
\* no call has started
NothingStarted ==
    /\ pc = [c \in Calls |-> "idle"]
    /\ fn = [c \in Calls |-> "none"]
    /\ pageConfig = [c \in Calls |-> NoPageSize]
    /\ maxCellWidth = [c \in Calls |-> R(0)]
    /\ decode = [c \in Calls |-> <<>>]
    /\ images = [c \in Calls |-> <<>>]
    /\ join = [c \in Calls |-> "none"]
    /\ reason = [c \in Calls |-> 0]
    /\ stripCanvas = [c \in Calls |-> NoCanvas]
    /\ canvas = [c \in Calls |-> NoCanvas]
    /\ result = [c \in Calls |-> NoResult]
    /\ error = [c \in Calls |-> NoError]
    /\ reordered = [c \in Calls |-> FALSE]
    /\ interleaved = [c \in Calls |-> FALSE]
    /\ NoScreen

PageCall(grid) ==
    [entry |-> "getPageSizeFromGrid", photos |-> NoPhotos, grid |-> grid,
     dpi |-> PrintDpi, marginPercent |-> DefaultMarginPercent, maxCellWidth |-> NullWidth]

\* the ids: none, the catalog, ids outside it, names of inherited properties
PageIds == {NoId, "custom", "", "constructor", "toString", "__proto__"}
               \cup DOMAIN gridToPageSize
\* cols and rows: missing, 0 and 1..MaxPageDim
PageDims == {Undefined, Num(0)} \cup {Num(i) : i \in 1..MaxPageDim}
PageGrids ==
    {NullGrid} \cup {StringGrid(i) : i \in PageIds \ {NoId}}
    \cup {ObjectGrid(i, c, r, FALSE) : i \in PageIds, c \in PageDims, r \in PageDims}

InitPageSize ==
    /\ args \in {[c \in Calls |-> IF c \in MainCalls THEN PageCall(g)
                                   ELSE StripCall(NoPhotos, PrintDpi)] : g \in PageGrids}
    /\ NothingStarted

\* a call of getPageSizeFromGrid: it returns at once
callGetPageSizeFromGrid(c) ==
    /\ pc[c] = "idle"
    /\ args[c].entry = "getPageSizeFromGrid"
    /\ pageConfig' = Set(pageConfig, c, getPageSizeFromGrid(args[c].grid))
    /\ pc' = Set(pc, c, "returned")
    /\ UNCHANGED <<args, fn, maxCellWidth, decode, images, join, reason, stripCanvas,
                   canvas, result, error, reordered, interleaved>>
    /\ UNCHANGED uiVars

NextPageSize == \E c \in MainCalls : callGetPageSizeFromGrid(c)

SpecPageSize == InitPageSize /\ [][NextPageSize]_vars

(* ------------------------------------------------------------------ *)
(* extractStripFromComposite                                          *)
(* ------------------------------------------------------------------ *)
\* reject(new Error('Failed to load composite image'))
ErrCompositeLoad == Err("Failed to load composite image", {}, 0, 0, 1)

ExtractCall(composite, dpi) ==
    [entry |-> "extractStripFromComposite", photos |-> Photos(<<composite>>),
     grid |-> NullGrid, dpi |-> dpi, marginPercent |-> DefaultMarginPercent,
     maxCellWidth |-> NullWidth]

\* composites up to the 4x6 page at the largest small dpi, decodable or not,
\* and the two composites the compositors produce at the print dpi
CompositeImages ==
    {Photo(w, h, ok) : w \in 1..(canvasWidthInches * MaxDpi),
                       h \in 1..(canvasHeightInches * MaxDpi), ok \in BOOLEAN}
    \cup {Photo(4 * PrintDpi, 6 * PrintDpi, TRUE), Photo(1206, 1206, TRUE)}
ExtractArgs == {ExtractCall(i, d) : i \in CompositeImages, d \in DpiValues}

InitExtract ==
    /\ args \in {[c \in Calls |-> IF c \in MainCalls THEN x
                                   ELSE StripCall(NoPhotos, PrintDpi)] : x \in ExtractArgs}
    /\ NothingStarted

\* drawImage with a source rectangle: the part of the rectangle outside the
\* image is clipped off, and the destination rectangle in the same proportion
DrawImageClipped(img, sx, sy, sw, sh, dx, dy, dw, dh) ==
    LET x0 == IF sx < 0 THEN 0 ELSE sx
        y0 == IF sy < 0 THEN 0 ELSE sy
        x1 == IF sx + sw > img.width THEN img.width ELSE sx + sw
        y1 == IF sy + sh > img.height THEN img.height ELSE sy + sh
    IN  DrawImage(img, x0, y0, x1 - x0, y1 - y0,
                  RAdd(R(dx), Norm((x0 - sx) * dw, sw)),
                  RAdd(R(dy), Norm((y0 - sy) * dh, sh)),
                  Norm((x1 - x0) * dw, sw), Norm((y1 - y0) * dh, sh))

\* mutant: the whole composite is scaled into the strip canvas
ExtractDrawScaled(img, dpi) ==
    DrawImageClipped(img, 0, 0, img.width, img.height,
                     0, 0, StripWidthPx(dpi), StripHeightPx(dpi))

\* mutant: the source rectangle starts one pixel to the right
ExtractDrawOffByOne(img, dpi) ==
    DrawImageClipped(img, 1, 0, StripWidthPx(dpi), StripHeightPx(dpi),
                     0, 0, StripWidthPx(dpi), StripHeightPx(dpi))

\* stripCtx.drawImage(compositeImg, 0, 0, stripWidthPx, stripHeightPx,
\*                    0, 0, stripWidthPx, stripHeightPx)
ExtractDraw(img, dpi) ==
    DrawImageClipped(img, 0, 0, StripWidthPx(dpi), StripHeightPx(dpi),
                     0, 0, StripWidthPx(dpi), StripHeightPx(dpi))

\* the call up to the return of its promise: the Image is created and its
\* src set
extractStripFromComposite(c) ==
    /\ pc[c] = "idle"
    /\ args[c].entry = "extractStripFromComposite"
    /\ pc' = Set(pc, c, "loading")
    /\ fn' = Set(fn, c, "extract")
    /\ UNCHANGED <<args, pageConfig, maxCellWidth, decode, images, join, reason,
                   stripCanvas, canvas, result, error, reordered, interleaved>>
    /\ UNCHANGED uiVars

\* compositeImg.onload: create the strip canvas, draw, encode, resolve
compositeImgOnload(c) ==
    /\ pc[c] = "loading" /\ fn[c] = "extract"
    /\ args[c].photos.list[1].ok
    /\ LET img == Image(1, args[c].photos.list[1])
           cv == Paint(NewCanvas(StripWidthPx(args[c].dpi), StripHeightPx(args[c].dpi)),
                       ExtractDraw(img, args[c].dpi))
       IN  /\ stripCanvas' = Set(stripCanvas, c, cv)
           /\ result' = Set(result, c, toDataURL(cv))
    /\ pc' = Set(pc, c, "resolved")
    /\ UNCHANGED <<args, fn, pageConfig, maxCellWidth, decode, images, join, reason,
                   canvas, error, reordered, interleaved>>
    /\ UNCHANGED uiVars

\* compositeImg.onerror: reject
compositeImgOnerror(c) ==
    /\ pc[c] = "loading" /\ fn[c] = "extract"
    /\ ~args[c].photos.list[1].ok
    /\ error' = Set(error, c, ErrCompositeLoad)
    /\ pc' = Set(pc, c, "rejected")
    /\ UNCHANGED <<args, fn, pageConfig, maxCellWidth, decode, images, join, reason,
                   stripCanvas, canvas, result, reordered, interleaved>>
    /\ UNCHANGED uiVars

NextExtract ==
    \E c \in MainCalls :
        \/ extractStripFromComposite(c)
        \/ compositeImgOnload(c)
        \/ compositeImgOnerror(c)

SpecExtract == InitExtract /\ [][NextExtract]_vars

(* ------------------------------------------------------------------ *)
(* One invocation under a fair event loop                             *)
(* ------------------------------------------------------------------ *)
\* The control part of the three kinds of step, on which fairness is stated:
\* each is enabled exactly when the steps of its kind are, and a step of Next
\* is one of them exactly when it is a step of its kind.
\* the call is made: createGridComposite or createStripGridComposite runs up
\* to its await or its throw
CallMade(c) ==
    /\ pc[c] = "idle"
    /\ \A o \in Calls : ~ContinuationReady(o)
    /\ pc' \in {Set(pc, c, "awaiting"), Set(pc, c, "rejected")}
\* decode k fires its load or its error callback
DecodeFires(c, k) ==
    /\ k \in DOMAIN decode[c]
    /\ decode[c][k] = "pending"
    /\ \A o \in Calls : ~ContinuationReady(o)
    /\ decode' \in {Set(decode, c, [decode[c] EXCEPT ![k] = s]) : s \in {"loaded", "failed"}}
\* the continuation of the settled await runs
ContinuationRuns(c) ==
    /\ ContinuationReady(c)
    /\ pc' \in {Set(pc, c, "resolved"), Set(pc, c, "rejected")}

\* the event loop keeps running: the call is made, every started decode fires
\* its load or its error callback, the continuation of a settled await runs
Fairness ==
    \A c \in MainCalls :
        /\ WF_pc(CallMade(c))
        /\ WF_pc(ContinuationRuns(c))
        /\ \A k \in 1..MaxPhotos : WF_decode(DecodeFires(c, k))

\* calls of both compositors on lists of every length with corrupt photos:
\* grids that fail a check, general grids, strip-routed grids
TerminationGrids ==
    {NullGrid, ObjectGrid(NoId, Num(0), Num(2), FALSE),
     ObjectGrid(NoId, Num(-1), Num(-1), FALSE),
     ObjectGrid(NoId, Num(1), Num(2), FALSE),
     ObjectGrid("4x6-4cut", Num(2), Num(2), FALSE),
     ObjectGrid("strip-grid", Num(1), Num(4), FALSE)}
TerminationArgs ==
    {GridCall(p, g, PrintDpi, DefaultMarginPercent, NullWidth) :
        p \in MixedLists \cup {NoPhotos}, g \in TerminationGrids}
    \cup {StripCall(p, PrintDpi) : p \in MixedLists \cup {NoPhotos}}

InitFair ==
    /\ args \in {[c \in Calls |-> IF c \in MainCalls THEN x
                                   ELSE StripCall(NoPhotos, PrintDpi)] :
                    x \in TerminationArgs}
    /\ NothingStarted

SpecFair == InitFair /\ [][Next]_vars /\ Fairness

(* ------------------------------------------------------------------ *)
(* extractStripFromComposite(await createStripGridComposite(photos,   *)
(* dpi), dpi)                                                         *)
(* ------------------------------------------------------------------ *)
\* call "a" is createStripGridComposite(photos, dpi) with 4 decodable photos
\* of every mix of sizes; call "b" is made once "a" has returned
InitRoundTrip ==
    /\ args \in {[c \in Calls |-> IF c = "a" THEN StripCall(p, dpi)
                                    ELSE StripCall(NoPhotos, dpi)] :
                    p \in PhotoLists(4), dpi \in DpiValues}
    /\ NothingStarted

\* the image a data URL decodes to: the size of the canvas it was made from
DataUrlImage(url) == Photo(url.width, url.height, url.mime = "image/jpeg")

\* extractStripFromComposite is called with the data URL call o returned and
\* o's dpi: the Image is created and its src set
extractStripFromCompositeOf(c, o) ==
    /\ pc[c] = "idle" /\ pc[o] = "resolved"
    /\ args' = Set(args, c, ExtractCall(DataUrlImage(result[o]), args[o].dpi))
    /\ pc' = Set(pc, c, "loading")
    /\ fn' = Set(fn, c, "extract")
    /\ UNCHANGED <<pageConfig, maxCellWidth, decode, images, join, reason,
                   stripCanvas, canvas, result, error, reordered, interleaved>>
    /\ UNCHANGED uiVars

NextRoundTrip ==
    \/ createStripGridComposite("a")
    \/ \E k \in 1..4 : onload("a", k)
    \/ createStripGridCompositeResume("a")
    \/ extractStripFromCompositeOf("b", "a")
    \/ compositeImgOnload("b")

SpecRoundTrip == InitRoundTrip /\ [][NextRoundTrip]_vars

(* ------------------------------------------------------------------ *)
(* A strip-routed createGridComposite beside createStripGridComposite *)
(* ------------------------------------------------------------------ *)
\* grids the strip check of createGridComposite routes, by id or by flag, with
\* and without 4 cells and a catalogued id
StripRoutedGrids ==
    {ObjectGrid("strip-grid", Num(1), Num(4), FALSE),
     ObjectGrid(NoId, Num(1), Num(1), TRUE),
     ObjectGrid("4x6-4cut", Num(2), Num(1), TRUE)}

\* two lists of 4 photos of mixed sizes, two with one corrupt photo, a list of 3
StripRoutedPhotos ==
    {Photos(<<Photo(2, 1, TRUE), Photo(3, 4, TRUE), Photo(4, 3, TRUE), Photo(3, 4, TRUE)>>),
     Photos(<<Photo(3, 4, TRUE), Photo(3, 4, TRUE), Photo(2, 1, TRUE), Photo(2, 1, TRUE)>>)}
    \cup {Photos(<<Photo(4, 3, FALSE), Photo(2, 1, TRUE), Photo(3, 4, TRUE),
                   Photo(4, 3, TRUE)>>),
          Photos(<<Photo(4, 3, TRUE), Photo(2, 1, TRUE), Photo(4, 3, FALSE),
                   Photo(3, 4, TRUE)>>),
          Photos(<<Photo(4, 3, TRUE), Photo(2, 1, TRUE), Photo(3, 4, TRUE)>>)}

\* call "a" is createGridComposite(photos, grid, dpi, marginPercent,
\* maxCellWidth) with a strip-routed grid, call "b" is
\* createStripGridComposite(photos, dpi) with the same photos and dpi
InitStripRouted ==
    /\ args \in {[c \in Calls |-> IF c = "a" THEN GridCall(p, g, dpi, m, w)
                                    ELSE StripCall(p, dpi)] :
                    p \in StripRoutedPhotos, g \in StripRoutedGrids, dpi \in 1..MaxDpi,
                    m \in MarginPercents, w \in MaxCellWidths}
    /\ NothingStarted

\* the steps the two calls can take: neither reaches the general path
NextStripRouted ==
    \E c \in Calls :
        \/ createGridComposite(c)
        \/ createStripGridComposite(c)
        \/ \E k \in 1..4 : onload(c, k)
        \/ \E k \in 1..4 : onerror(c, k)
        \/ createStripGridCompositeResume(c)
        \/ createStripGridCompositeThrow(c)

SpecStripRouted == InitStripRouted /\ [][NextStripRouted]_vars

(* ------------------------------------------------------------------ *)
(* EditScreen: saveCurrentPhoto and handleNext                        *)
(* ------------------------------------------------------------------ *)
EditDpi == 300
EditMarginPercent == 3

\* photos: the session's capturedPhotos, or none
EditScreenPhotos ==
    IF sessionData.capturedPhotos.defined THEN sessionData.capturedPhotos.list ELSE <<>>

\* tempCanvas.toDataURL('image/jpeg', 0.95): a JPEG of the photo's size
editedPhoto(p) == SessionPhoto(p.width, p.height, TRUE, -p.from)

\* saveCurrentPhoto up to its promise: null without a container, else an
\* image whose load is awaited
saveCurrentPhoto(k) == IF ~containerRefs[k] THEN "null" ELSE "pending"

\* sessionData.selectedGrid || { cols: 1, rows: 1, id: '4x6-single' }
EditGrid ==
    LET g == sessionData.selectedGrid
    IN  IF g.kind = "null" \/ (g.kind = "string" /\ g.id = "")
          THEN ObjectGrid("4x6-single", Num(1), Num(1), FALSE)
          ELSE g

\* grid.id === 'strip-grid' || grid.isStripGrid
EditIsStripGrid(grid) ==
    grid.kind = "object" /\ (grid.id = "strip-grid" \/ grid.isStripGrid)

\* isStripGrid ? 4 : grid.cols * grid.rows, NaN without cols or rows
EditTotalCells(grid) ==
    IF EditIsStripGrid(grid) THEN Num(4)
    ELSE IF grid.cols.has /\ grid.rows.has THEN Num(grid.cols.v * grid.rows.v)
    ELSE Undefined

\* photos.map((_, idx) => edited[idx] ? edited[idx] : photos[idx])
EditFinalPhotos(edited) ==
    [k \in 1..Len(EditScreenPhotos) |->
        IF edited[k] # NoPhoto THEN edited[k] ELSE EditScreenPhotos[k]]

\* which branch after the loop: "strip" and "grid" call createGridComposite
EditBranch(finalPhotos, grid) ==
    LET n == Len(finalPhotos)
        totalCells == EditTotalCells(grid)
    IN  IF EditIsStripGrid(grid) /\ n = 4 THEN "strip"
        ELSE IF n > 1 /\ totalCells.has /\ totalCells.v > 1 /\ n = totalCells.v THEN "grid"
        ELSE IF n = 1 THEN "single"
        ELSE "none"

\* the data URLs handed to createGridComposite
EditComposeCall(finalPhotos, grid) ==
    GridCall(Photos([k \in 1..Len(finalPhotos) |->
                        Photo(finalPhotos[k].width, finalPhotos[k].height,
                              finalPhotos[k].ok)]),
             grid, EditDpi, EditMarginPercent, NullWidth)

\* mutant: compositeImage is written as it is, without || finalPhotos[0]
handleNextFinishNoFallback(frame, compositeImage) ==
    /\ sessionData' =
           [sessionData EXCEPT
               !.editedPhotos = Photos(frame.finalPhotos),
               !.compositeImage = compositeImage,
               !.selectedGrid = EditGrid]
    /\ route' = "/frame-selection"
    /\ handleNext' = [frame EXCEPT !.pc = "done", !.compositeImage = compositeImage]

\* updateSession({editedPhotos, compositeImage: compositeImage || finalPhotos[0],
\* selectedGrid}) and navigate('/frame-selection')
handleNextFinish(frame, compositeImage) ==
    /\ sessionData' =
           [sessionData EXCEPT
               !.editedPhotos = Photos(frame.finalPhotos),
               !.compositeImage =
                   IF compositeImage # NoCompositeImage THEN compositeImage
                   ELSE IF Len(frame.finalPhotos) > 0
                     THEN PhotoImage(frame.finalPhotos[1])
                   ELSE NoCompositeImage,
               !.selectedGrid = EditGrid]
    /\ route' = "/frame-selection"
    /\ handleNext' = [frame EXCEPT !.pc = "done", !.compositeImage = compositeImage]

\* after the loop: finalPhotos, grid, and either the await of
\* createGridComposite or the rest of the handler
handleNextAfterLoop(frame) ==
    LET finalPhotos == EditFinalPhotos(frame.edited)
        branch == EditBranch(finalPhotos, EditGrid)
        f == [frame EXCEPT !.finalPhotos = finalPhotos, !.i = 0, !.img = "none"]
    IN  IF branch \in {"strip", "grid"}
          THEN /\ handleNext' = [f EXCEPT !.pc = "composing"]
               /\ args' = Set(args, "a", EditComposeCall(finalPhotos, EditGrid))
               /\ UNCHANGED <<sessionData, route>>
          ELSE /\ handleNextFinish(f, IF branch = "single" THEN PhotoImage(finalPhotos[1])
                                      ELSE NoCompositeImage)
               /\ UNCHANGED args

\* the loop reaches photo k: saveCurrentPhoto(k) is awaited, or the loop ends
handleNextLoop(frame, k) ==
    IF k <= Len(EditScreenPhotos)
      THEN /\ handleNext' = [frame EXCEPT !.pc = "saving", !.i = k,
                                          !.img = saveCurrentPhoto(k)]
           /\ UNCHANGED <<args, sessionData, route>>
      ELSE handleNextAfterLoop(frame)

editUnchanged ==
    UNCHANGED <<pc, fn, pageConfig, maxCellWidth, decode, images, join, reason,
                stripCanvas, canvas, result, error, reordered, interleaved,
                containerRefs, capturedPhotos, handleCapture, timeouts, autoCapture,
                effectDeps, intervals>>

\* the Next button: handleNext runs up to its first await
handleNextClick ==
    /\ handleNext.pc = "none"
    /\ route = "/edit"
    /\ handleNextLoop([handleNext EXCEPT
                          !.edited = [k \in 1..Len(EditScreenPhotos) |-> NoPhoto]], 1)
    /\ editUnchanged

\* img.onload of saveCurrentPhoto: resolve(editedPhoto)
saveCurrentPhotoOnload ==
    /\ handleNext.pc = "saving" /\ handleNext.img = "pending"
    /\ EditScreenPhotos[handleNext.i].ok
    /\ handleNext' = [handleNext EXCEPT !.img = "loaded"]
    /\ UNCHANGED <<args, sessionData, route>>
    /\ editUnchanged

\* the image of saveCurrentPhoto fails to load: img has no onerror, the
\* promise stays pending
saveCurrentPhotoLoadFails ==
    /\ handleNext.pc = "saving" /\ handleNext.img = "pending"
    /\ ~EditScreenPhotos[handleNext.i].ok
    /\ handleNext' = [handleNext EXCEPT !.img = "failed"]
    /\ UNCHANGED <<args, sessionData, route>>
    /\ editUnchanged

\* the await of saveCurrentPhoto(i) returns: if (saved) edited[i] = saved, i++
handleNextSaved ==
    /\ handleNext.pc = "saving" /\ handleNext.img \in {"null", "loaded"}
    /\ LET k == handleNext.i
           saved == IF handleNext.img = "loaded" THEN editedPhoto(EditScreenPhotos[k])
                    ELSE NoPhoto
       IN  handleNextLoop([handleNext EXCEPT !.edited[k] = saved], k + 1)
    /\ editUnchanged

\* createGridComposite(finalPhotos, grid, 300, 3) runs up to its first await
handleNextCallsCreateGridComposite ==
    /\ handleNext.pc = "composing"
    /\ createGridComposite("a")

\* the await of createGridComposite returns or throws into the catch
handleNextResume ==
    /\ handleNext.pc = "composing"
    /\ pc["a"] \in {"resolved", "rejected"}
    /\ handleNextFinish(handleNext,
           IF pc["a"] = "resolved" THEN CompositeImage(result["a"])
           ELSE IF EditBranch(handleNext.finalPhotos, EditGrid) = "strip"
             THEN PhotoImage(handleNext.finalPhotos[1])
           ELSE NoCompositeImage)
    /\ UNCHANGED args
    /\ editUnchanged

\* the photos of the session: two sizes that load and one that does not
EditPhotoLists ==
    UNION {{Photos([k \in 1..n |-> SessionPhoto(l[k][1], l[k][2], l[k][3], k)]) :
               l \in [1..n -> {<<4, 3, TRUE>>, <<3, 4, TRUE>>, <<4, 3, FALSE>>}]} :
           n \in 1..MaxPhotos}

\* the selected grid: none, the catalog's, strip grids with and without
\* cols and rows, a grid id
EditGrids ==
    {NullGrid,
     ObjectGrid("4x6-single", Num(1), Num(1), FALSE),
     ObjectGrid("4x6-2cut", Num(1), Num(2), FALSE),
     ObjectGrid("4x6-4cut", Num(2), Num(2), FALSE),
     ObjectGrid("strip-grid", Num(1), Num(4), FALSE),
     ObjectGrid("strip-grid", Undefined, Undefined, TRUE),
     StringGrid("4x6-4cut")}

CompositorIdle ==
    /\ args = [c \in Calls |-> StripCall(NoPhotos, PrintDpi)]
    /\ pc = [c \in Calls |-> "idle"]
    /\ fn = [c \in Calls |-> "none"]
    /\ pageConfig = [c \in Calls |-> NoPageSize]
    /\ maxCellWidth = [c \in Calls |-> R(0)]
    /\ decode = [c \in Calls |-> <<>>]
    /\ images = [c \in Calls |-> <<>>]
    /\ join = [c \in Calls |-> "none"]
    /\ reason = [c \in Calls |-> 0]
    /\ stripCanvas = [c \in Calls |-> NoCanvas]
    /\ canvas = [c \in Calls |-> NoCanvas]
    /\ result = [c \in Calls |-> NoResult]
    /\ error = [c \in Calls |-> NoError]
    /\ reordered = [c \in Calls |-> FALSE]
    /\ interleaved = [c \in Calls |-> FALSE]

\* the edit screen is mounted on a session with photos; every photo's
\* container has its ref
InitEdit ==
    /\ CompositorIdle
    /\ sessionData \in {[NoSession EXCEPT !.capturedPhotos = p, !.selectedGrid = g] :
                           p \in EditPhotoLists, g \in EditGrids}
    /\ route = "/edit"
    /\ containerRefs = [k \in 1..Len(sessionData.capturedPhotos.list) |-> TRUE]
    /\ handleNext = NotCalled
    /\ capturedPhotos = <<>>
    /\ handleCapture = <<>>
    /\ timeouts = <<>>
    /\ autoCapture = FALSE
    /\ effectDeps = NoDeps
    /\ intervals = 0

\* every photo handed to createGridComposite is a JPEG of the edit canvas:
\* its decodes load
NextEdit ==
    \/ handleNextClick
    \/ saveCurrentPhotoOnload
    \/ saveCurrentPhotoLoadFails
    \/ handleNextSaved
    \/ handleNextCallsCreateGridComposite
    \/ \E k \in 1..MaxPhotos : onload("a", k)
    \/ createGridCompositeResume("a")
    \/ createStripGridCompositeResume("a")
    \/ handleNextResume

SpecEdit == InitEdit /\ [][NextEdit]_vars

\* the event loop is fair to the edit screen: a pending image load settles
\* where the photo can load, a ready continuation runs, and the compositor
\* call handleNext awaits takes its steps
editCallMade == handleNext.pc = "composing" /\ CallMade("a")

FairnessEdit ==
    /\ WF_vars(saveCurrentPhotoOnload)
    /\ WF_vars(saveCurrentPhotoLoadFails)
    /\ WF_vars(handleNextSaved)
    /\ WF_vars(handleNextResume)
    /\ WF_pc(editCallMade)
    /\ WF_pc(ContinuationRuns("a"))
    /\ \A k \in 1..MaxPhotos : WF_decode(DecodeFires("a", k))

SpecEditFair == InitEdit /\ [][NextEdit]_vars /\ FairnessEdit

(* ------------------------------------------------------------------ *)
(* CameraSettings: the capture screen                                 *)
(* ------------------------------------------------------------------ *)
\* the string ids and the id fallback of getGridCellCount
IdCellCount(id) ==
    IF id = "4x6-single" THEN 1
    ELSE IF id = "4x6-2cut" THEN 2
    ELSE IF id = "4x6-4cut" THEN 4
    ELSE IF id = "4x6-6cut" THEN 6
    ELSE IF id = "2x4-vertical-2" THEN 2
    ELSE IF id = "5x7-6cut" THEN 6
    ELSE 1

getGridCellCount(grid) ==
    IF grid.kind = "null" \/ (grid.kind = "string" /\ grid.id = "") THEN 1
    ELSE IF grid.kind = "string" /\ grid.id = "strip-grid" THEN 4
    ELSE IF grid.kind = "object" /\ (grid.id = "strip-grid" \/ grid.isStripGrid) THEN 4
    ELSE IF grid.kind = "string" THEN IdCellCount(grid.id)
    ELSE IF Truthy(grid.cols) /\ Truthy(grid.rows) THEN grid.cols.v * grid.rows.v
    ELSE IdCellCount(grid.id)

totalCells == getGridCellCount(sessionData.selectedGrid)
isComplete == Len(capturedPhotos) = totalCells

\* the screen is on display
CameraSettingsMounted == route = "/camera-settings"

\* canvas.toDataURL('image/jpeg', 0.95) of the screenshot of call n
photoData(n) == SessionPhoto(4, 3, TRUE, n)

\* mutant: the session is written from the first photo on
CaptureCompleteFromFirst(newPhotos) == Len(newPhotos) >= 1

\* newPhotos.length === totalCells
CaptureComplete(newPhotos) == Len(newPhotos) = totalCells

captureUnchanged ==
    UNCHANGED <<args, pc, fn, pageConfig, maxCellWidth, decode, images, join, reason,
                stripCanvas, canvas, result, error, reordered, interleaved,
                containerRefs, handleNext, autoCapture>>

\* the capture button, enabled while the list is not complete: handleCapture
\* runs with the capturedPhotos of its render; without a screenshot it returns
handleCaptureClick(shot) ==
    /\ CameraSettingsMounted
    /\ ~isComplete
    /\ Len(handleCapture) < MaxCaptures
    /\ handleCapture' = Append(handleCapture,
                               [capturedPhotos |-> capturedPhotos,
                                img |-> IF shot THEN "loading" ELSE "none"])
    /\ UNCHANGED <<sessionData, route, capturedPhotos, timeouts, effectDeps, intervals>>
    /\ captureUnchanged

\* img.onload of call n: newPhotos = [...capturedPhotos, photoData] over the
\* call's capturedPhotos
handleCaptureOnload(n) ==
    /\ n \in DOMAIN handleCapture
    /\ handleCapture[n].img = "loading"
    /\ LET newPhotos == Append(handleCapture[n].capturedPhotos, photoData(n))
       IN  /\ capturedPhotos' = IF CameraSettingsMounted THEN newPhotos ELSE capturedPhotos
           /\ IF CaptureComplete(newPhotos)
                THEN /\ sessionData' = [sessionData EXCEPT
                                           !.capturedPhotos = Photos(newPhotos)]
                     /\ timeouts' = Append(timeouts, "/edit")
                ELSE UNCHANGED <<sessionData, timeouts>>
    /\ handleCapture' = [handleCapture EXCEPT ![n].img = "loaded"]
    /\ UNCHANGED <<route, effectDeps, intervals>>
    /\ captureUnchanged

\* capturedPhotos.filter((_, i) => i !== index)
handleDeletePhoto(index) ==
    /\ CameraSettingsMounted
    /\ index \in DOMAIN capturedPhotos
    /\ capturedPhotos' = SubSeq(capturedPhotos, 1, index - 1)
                             \o SubSeq(capturedPhotos, index + 1, Len(capturedPhotos))
    /\ UNCHANGED <<sessionData, route, handleCapture, timeouts, effectDeps, intervals>>
    /\ captureUnchanged

\* the Remove Last / Back button
removeLast ==
    /\ CameraSettingsMounted
    /\ IF Len(capturedPhotos) > 0
         THEN /\ capturedPhotos' = SubSeq(capturedPhotos, 1, Len(capturedPhotos) - 1)
              /\ UNCHANGED route
         ELSE /\ route' = "/camera-filter"
              /\ UNCHANGED capturedPhotos
    /\ UNCHANGED <<sessionData, handleCapture, timeouts, effectDeps, intervals>>
    /\ captureUnchanged

\* the timeout of a complete capture: navigate('/edit')
captureTimeout ==
    /\ Len(timeouts) > 0
    /\ route' = Head(timeouts)
    /\ timeouts' = Tail(timeouts)
    /\ UNCHANGED <<sessionData, capturedPhotos, handleCapture, effectDeps, intervals>>
    /\ captureUnchanged

\* the face detection effect runs after a render whose autoCapture or
\* isComplete changed: detectFace starts its interval; the function that
\* clears it is the result of the async detectFace and is not returned to
\* React, so no run of the effect clears an interval
faceDetectionEffect ==
    /\ CameraSettingsMounted
    /\ effectDeps # [ran |-> TRUE, autoCapture |-> autoCapture, isComplete |-> isComplete]
    /\ effectDeps' = [ran |-> TRUE, autoCapture |-> autoCapture, isComplete |-> isComplete]
    /\ intervals' = IF autoCapture /\ ~isComplete THEN intervals + 1 ELSE intervals
    /\ UNCHANGED <<sessionData, route, capturedPhotos, handleCapture, timeouts>>
    /\ captureUnchanged

\* the selected grid: none, grid ids, the catalog's objects, strip grids, an
\* object without cols and rows
CaptureGrids ==
    {NullGrid, StringGrid("strip-grid"), StringGrid("4x6-2cut"),
     ObjectGrid("4x6-single", Num(1), Num(1), FALSE),
     ObjectGrid("4x6-2cut", Num(1), Num(2), FALSE),
     ObjectGrid("4x6-4cut", Num(2), Num(2), FALSE),
     ObjectGrid("strip-grid", Num(1), Num(4), FALSE),
     ObjectGrid(NoId, Num(1), Num(1), TRUE),
     ObjectGrid("4x6-2cut", Undefined, Undefined, FALSE)}

\* the capture screen is mounted: no photo, autoCapture off
InitCapture ==
    /\ CompositorIdle
    /\ sessionData \in {[NoSession EXCEPT !.selectedGrid = g] : g \in CaptureGrids}
    /\ route = "/camera-settings"
    /\ containerRefs = <<>>
    /\ handleNext = NotCalled
    /\ capturedPhotos = <<>>
    /\ handleCapture = <<>>
    /\ timeouts = <<>>
    /\ autoCapture = FALSE
    /\ effectDeps = NoDeps
    /\ intervals = 0

NextCapture ==
    \/ \E shot \in BOOLEAN : handleCaptureClick(shot)
    \/ \E n \in 1..MaxCaptures : handleCaptureOnload(n)
    \/ \E index \in 1..MaxCaptures : handleDeletePhoto(index)
    \/ removeLast
    \/ captureTimeout
    \/ faceDetectionEffect

SpecCapture == InitCapture /\ [][NextCapture]_vars

(* ------------------------------------------------------------------ *)
(* Pixels of a canvas                                                 *)
(* ------------------------------------------------------------------ *)
\* what a pixel shows: nothing, white, or pixel (u, v) of photo src
Transparent == [src |-> -1, u |-> 0, v |-> 0]
White == [src |-> 0, u |-> 0, v |-> 0]

\* the centre of pixel x lies in [d, d + len)
Covers(d, len, x) ==
    LET centre == <<2 * x + 1, 2>>
    IN  RLe(d, centre) /\ RLt(centre, RAdd(d, len))

\* the source coordinate a destination pixel samples
Sample(s, slen, d, dlen, x) ==
    Floor(RAdd(s, RDiv(RMul(RSub(<<2 * x + 1, 2>>, d), slen), dlen)))

\* the topmost of the first i calls that paints pixel (x, y)
RECURSIVE PixelFrom(_, _, _, _)
PixelFrom(ops, i, x, y) ==
    IF i = 0 THEN Transparent
    ELSE LET op == ops[i]
             hit == Covers(op.dx, op.dw, x) /\ Covers(op.dy, op.dh, y)
         IN  IF ~hit THEN PixelFrom(ops, i - 1, x, y)
             ELSE IF op.kind = "fillRect" THEN White
             ELSE IF op.kind = "drawImage"
               THEN [src |-> op.src, u |-> Sample(op.sx, op.sw, op.dx, op.dw, x),
                     v |-> Sample(op.sy, op.sh, op.dy, op.dh, y)]
             ELSE LET p == PixelFrom(op.sub, Len(op.sub), x - Floor(op.dx), y - Floor(op.dy))
                  IN  IF p = Transparent THEN PixelFrom(ops, i - 1, x, y) ELSE p

Pixel(cv, x, y) == PixelFrom(cv.ops, Len(cv.ops), x, y)

(* ------------------------------------------------------------------ *)
(* Claims                                                             *)
(* ------------------------------------------------------------------ *)
\* grid.cols and grid.rows are positive integers
PositiveGrid(g) ==
    g.kind = "object" /\ g.cols.has /\ g.cols.v > 0 /\ g.rows.has /\ g.rows.v > 0

\* a call of createGridComposite on the general (non-strip) path has returned
GridDone(c) == pc[c] = "resolved" /\ fn[c] = "grid"
\* a call has returned from createStripGridComposite
StripDone(c) == pc[c] = "resolved" /\ fn[c] = "strip"

\* the layout of a finished general call
LayoutOf(c) ==
    GridLayout(images[c], args[c].grid.cols.v, args[c].grid.rows.v, args[c].dpi,
               args[c].marginPercent, maxCellWidth[c])

\* the drawImage call of photo index i (0-based) on a canvas: call i + 2
DrawOf(cv, i) == cv.ops[i + 2]

\* the case of C1: a positive, not strip-routed grid, default marginPercent,
\* no maxCellWidth, and the call has returned
C1_Case(c) ==
    /\ GridDone(c)
    /\ PositiveGrid(args[c].grid)
    /\ args[c].marginPercent = DefaultMarginPercent
    /\ args[c].maxCellWidth.isNull

C2_StripDuplicated ==
    \A c \in Calls :
        StripDone(c) =>
            LET dpi == args[c].dpi
            IN  /\ canvas[c].width = 4 * dpi /\ canvas[c].height = 6 * dpi
                /\ result[c].width = 4 * dpi /\ result[c].height = 6 * dpi
                /\ dpi <= MaxDpi =>
                      \A x \in 0..(2 * dpi - 1), y \in 0..(6 * dpi - 1) :
                          Pixel(canvas[c], x, y) = Pixel(canvas[c], x + 2 * dpi, y)

\* C2 witness: a strip of three different photo sizes has returned and its
\* left half shows photo pixels and white
C2_Witness ==
    \E c \in Calls :
        /\ StripDone(c)
        /\ args[c].dpi = 2
        /\ Cardinality({args[c].photos.list[k] : k \in 1..4}) = 3
        /\ \E x \in 0..3, y \in 0..11 : Pixel(canvas[c], x, y).src > 0
        /\ \E x \in 0..3, y \in 0..11 : Pixel(canvas[c], x, y) = White

\* C3: in createGridComposite every photo's destination rectangle lies inside
\* its cell box (cells of positive size) and the whole source image is drawn.
C3_DrawnInsideCell ==
    \A c \in Calls :
        (GridDone(c) /\ LayoutOf(c).cellWidthPx > 0 /\ LayoutOf(c).cellHeightPx > 0) =>
            \A i \in 0..(Len(images[c]) - 1) :
                LET lay == LayoutOf(c)
                    rows == args[c].grid.rows.v
                    cellX == CellOrigin(lay.marginSize, lay.cellWidthPx, ColOf(i, rows))
                    cellY == CellOrigin(lay.marginSize, lay.cellHeightPx, RowOf(i, rows))
                    op == DrawOf(canvas[c], i)
                    photo == args[c].photos.list[i + 1]
                IN  /\ op.kind = "drawImage"
                    /\ RLe(R(cellX), op.dx)
                    /\ RLe(R(cellY), op.dy)
                    /\ RLe(RAdd(op.dx, op.dw), R(cellX + lay.cellWidthPx))
                    /\ RLe(RAdd(op.dy, op.dh), R(cellY + lay.cellHeightPx))
                    /\ RLt(R(0), op.dw) /\ RLt(R(0), op.dh)
                    /\ op.sx = R(0) /\ op.sy = R(0)
                    /\ op.sw = R(photo.width) /\ op.sh = R(photo.height)

\* C3 witness: a returned grid call drew a wide and a tall photo, each
\* strictly smaller than its cell in one direction
C3_Witness ==
    \E c \in Calls :
        /\ GridDone(c)
        /\ LayoutOf(c).cellWidthPx > 0 /\ LayoutOf(c).cellHeightPx > 0
        /\ \E i \in 0..(Len(images[c]) - 1) :
              RLt(DrawOf(canvas[c], i).dh, R(LayoutOf(c).cellHeightPx))
        /\ \E i \in 0..(Len(images[c]) - 1) :
              RLt(DrawOf(canvas[c], i).dw, R(LayoutOf(c).cellWidthPx))

\* the drawImage calls of a finished call that place photos
PhotoDraws(c) ==
    LET cv == IF fn[c] = "strip" THEN stripCanvas[c] ELSE canvas[c]
    IN  {DrawOf(cv, i) : i \in 0..(Len(images[c]) - 1)}

\* C4: in both compositors and both branches of the fit,
\* drawWidth * imgHeight = drawHeight * imgWidth.
C4_AspectPreserved ==
    \A c \in Calls :
        pc[c] = "resolved" =>
            \A op \in PhotoDraws(c) : RMul(op.dw, op.sh) = RMul(op.dh, op.sw)

\* C4 witness: a returned strip call has a fit-to-width and a fit-to-height
\* placement, each leaving room in the other direction
C4_Witness ==
    \E c \in Calls :
        /\ StripDone(c)
        /\ \E op \in PhotoDraws(c) :
              /\ op.dw = R(StripWidthPx(args[c].dpi))
              /\ RLt(op.dh, R(StripCellHeightPx(args[c].dpi)))
        /\ \E op \in PhotoDraws(c) :
              /\ op.dh = R(StripCellHeightPx(args[c].dpi))
              /\ RLt(op.dw, R(StripWidthPx(args[c].dpi)))

\* C5: photo index i is drawn in the cell col = floor(i / rows), row = i % rows,
\* and the map from indices to cells is a bijection onto the cols x rows cells.
C5_ColumnMajor ==
    \A c \in Calls :
        (GridDone(c) /\ PositiveGrid(args[c].grid)) =>
            LET cols == args[c].grid.cols.v
                rows == args[c].grid.rows.v
                n == Len(args[c].photos.list)
                lay == LayoutOf(c)
                cell(i) == <<i \div rows, i % rows>>
            IN  /\ \A i \in 0..(n - 1) :
                      LET op == DrawOf(canvas[c], i)
                          x0 == lay.marginSize + cell(i)[1] * (lay.cellWidthPx + lay.marginSize)
                          y0 == lay.marginSize + cell(i)[2] * (lay.cellHeightPx + lay.marginSize)
                      IN  /\ op.src = i + 1
                          /\ RLe(R(x0), op.dx) /\ RLe(RAdd(op.dx, op.dw), R(x0 + lay.cellWidthPx))
                          /\ RLe(R(y0), op.dy) /\ RLe(RAdd(op.dy, op.dh), R(y0 + lay.cellHeightPx))
                /\ {cell(i) : i \in 0..(n - 1)} = (0..(cols - 1)) \X (0..(rows - 1))
                /\ \A i, j \in 0..(n - 1) : cell(i) = cell(j) => i = j

\* C5 witness: a returned 2x2 call with a margin drew photo 1 in the cell
\* below photo 0 and photo 2 in the cell right of photo 0
C5_Witness ==
    \E c \in Calls :
        /\ GridDone(c)
        /\ args[c].grid.cols = Num(2) /\ args[c].grid.rows = Num(2)
        /\ LayoutOf(c).marginSize > 0
        /\ DrawOf(canvas[c], 1).dx = DrawOf(canvas[c], 0).dx
        /\ RLt(DrawOf(canvas[c], 0).dy, DrawOf(canvas[c], 1).dy)
        /\ RLt(DrawOf(canvas[c], 0).dx, DrawOf(canvas[c], 2).dx)

\* a call of createGridComposite has been made
GridCalled(c) == args[c].entry = "createGridComposite" /\ pc[c] # "idle"

\* grid.cols and grid.rows are both present and not zero
NonZeroGrid(g) ==
    g.kind = "object" /\ g.cols.has /\ g.cols.v # 0 /\ g.rows.has /\ g.rows.v # 0

\* the grid carries strip routing: id 'strip-grid' or the isStripGrid flag
StripGrid(g) == g.kind = "object" /\ (g.id = "strip-grid" \/ g.isStripGrid)

\* the call failed before any decode was started or canvas created
FailedEarly(c) ==
    /\ pc[c] = "rejected"
    /\ decode[c] = <<>> /\ join[c] = "none"
    /\ canvas[c] = NoCanvas /\ stripCanvas[c] = NoCanvas /\ result[c] = NoResult

\* C6 as stated: a count mismatch on a non-strip grid, or an empty or missing
\* list, fails with an error naming the expected and the actual count, before
\* any decode or canvas.
C6_MismatchNamesCounts ==
    \A c \in Calls :
        LET g == args[c].grid
            n == Len(args[c].photos.list)
        IN  (/\ GridCalled(c)
             /\ \/ ~args[c].photos.defined \/ n = 0
                \/ NonZeroGrid(g) /\ ~StripGrid(g) /\ n # g.cols.v * g.rows.v) =>
                /\ FailedEarly(c)
                /\ {"expected", "actual"} \subseteq error[c].names

\* C6 amended: a non-empty list whose length differs from cols*rows (non-strip
\* grid, cols and rows present and non-zero) fails with an error naming
\* cols*rows and the length; an empty or missing list fails with 'No photos
\* provided', which names no count; both before any decode or canvas.
C6_MismatchOrEmpty ==
    \A c \in Calls :
        LET g == args[c].grid
            n == Len(args[c].photos.list)
        IN  GridCalled(c) =>
              /\ (~args[c].photos.defined \/ n = 0) =>
                    /\ FailedEarly(c)
                    /\ error[c].message = "No photos provided"
                    /\ error[c].names = {}
              /\ (n > 0 /\ NonZeroGrid(g) /\ ~StripGrid(g) /\ n # g.cols.v * g.rows.v) =>
                    /\ FailedEarly(c)
                    /\ error[c].names = {"expected", "actual"}
                    /\ error[c].expected = g.cols.v * g.rows.v
                    /\ error[c].actual = n

\* C6 witness: one photo for a 2x2 grid was refused with 'Expected 4 photos, got 1'
C6_Witness ==
    \E c \in Calls :
        /\ GridCalled(c)
        /\ args[c].grid.cols = Num(2) /\ args[c].grid.rows = Num(2)
        /\ ~StripGrid(args[c].grid)
        /\ Len(args[c].photos.list) = 1
        /\ pc[c] = "rejected"
        /\ error[c].expected = 4 /\ error[c].actual = 1

\* C7: createGridComposite fails, without decoding or output, whenever
\* grid.cols or grid.rows is missing or not a positive number.
C7_RejectsNonPositiveGrid ==
    \A c \in Calls :
        (GridCalled(c) /\ ~PositiveGrid(args[c].grid)) => FailedEarly(c)

\* C8 as stated: a strip-routed grid needs exactly 4 photos whatever cols and
\* rows are: 4 photos are handed to createStripGridComposite, any other count
\* fails with an error naming the required count.
C8_StripNeedsFour ==
    \A c \in Calls :
        (GridCalled(c) /\ StripGrid(args[c].grid)) =>
            IF args[c].photos.defined /\ Len(args[c].photos.list) = 4
              THEN fn[c] = "strip" /\ Len(decode[c]) = 4
              ELSE /\ FailedEarly(c)
                   /\ "expected" \in error[c].names /\ error[c].expected = 4

\* the images of the call's photos, in index order
DecodedPhotos(c) ==
    [k \in 1..Len(args[c].photos.list) |-> Image(k, args[c].photos.list[k])]

\* C8 amended: for a strip-routed grid whose cols and rows are present and
\* non-zero, 4 photos are handed to createStripGridComposite whatever cols*rows
\* is and its result returned; any other non-zero count fails naming the
\* required 4 and the actual count; an empty or missing list fails with 'No
\* photos provided'. With cols or rows missing or zero a non-empty list fails
\* with 'Invalid grid configuration'.
C8_StripNeedsFourWithDims ==
    \A c \in Calls :
        LET g == args[c].grid
            n == Len(args[c].photos.list)
        IN  (GridCalled(c) /\ StripGrid(g)) =>
              /\ (~args[c].photos.defined \/ n = 0) =>
                    FailedEarly(c) /\ error[c].message = "No photos provided"
              /\ (n > 0 /\ ~NonZeroGrid(g)) =>
                    FailedEarly(c) /\ error[c].message = "Invalid grid configuration"
              /\ (n > 0 /\ n # 4 /\ NonZeroGrid(g)) =>
                    /\ FailedEarly(c)
                    /\ error[c].names = {"expected", "actual"}
                    /\ error[c].expected = 4 /\ error[c].actual = n
              /\ (n = 4 /\ NonZeroGrid(g)) =>
                    /\ fn[c] = "strip" /\ Len(decode[c]) = 4
                    /\ pc[c] = "resolved" =>
                          result[c] = toDataURL(StripFinalCanvas(
                                         StripCanvas(DecodedPhotos(c), args[c].dpi),
                                         args[c].dpi))

\* C8 witness: a grid routed by the flag alone, with cols*rows = 2, returned
\* the strip composite of 4 photos
C8_Witness ==
    \E c \in Calls :
        /\ GridCalled(c)
        /\ args[c].grid.isStripGrid /\ args[c].grid.id # "strip-grid"
        /\ args[c].grid.cols = Num(2) /\ args[c].grid.rows = Num(1)
        /\ StripDone(c)
        /\ result[c].width = 4 * args[c].dpi

\* some decode of the call has failed
SomeDecodeFailed(c) == \E k \in DOMAIN decode[c] : decode[c][k] = "failed"

\* C9: once a decode has failed the call ends in an error and never returns a
\* bitmap: the join is rejected, no canvas is created or drawn to and no
\* output exists, whatever the other decodes do.
C9_DecodeFailureAborts ==
    \A c \in Calls :
        SomeDecodeFailed(c) =>
            /\ join[c] = "rejected"
            /\ pc[c] \in {"awaiting", "rejected"}
            /\ pc[c] = "rejected" => error[c] = ErrDecode(reason[c])
            /\ decode[c][reason[c]] = "failed"
            /\ canvas[c] = NoCanvas /\ stripCanvas[c] = NoCanvas
            /\ result[c] = NoResult

\* C9 witness: a 4-photo call has ended in the error of one failed decode
\* after the three other decodes succeeded, one of them after the failure
C9_Witness ==
    \E c \in Calls :
        /\ pc[c] = "rejected" /\ fn[c] = "grid"
        /\ Len(decode[c]) = 4
        /\ decode[c][2] = "failed"
        /\ \A k \in {1, 3, 4} : decode[c][k] = "loaded"
        /\ reordered[c]

\* C10: no canvas exists until all decodes have succeeded, decoded image k is
\* drawn as photo index k, and the canvas is the one the arguments determine,
\* whatever the order of the decode callbacks.
C10_OrderIndependent ==
    \A c \in Calls :
        /\ (canvas[c].created \/ stripCanvas[c].created) =>
              \A k \in DOMAIN decode[c] : decode[c][k] = "loaded"
        /\ GridDone(c) =>
              /\ \A i \in 0..(Len(args[c].photos.list) - 1) :
                    /\ DrawOf(canvas[c], i).src = i + 1
                    /\ DrawOf(canvas[c], i).sw = R(args[c].photos.list[i + 1].width)
                    /\ DrawOf(canvas[c], i).sh = R(args[c].photos.list[i + 1].height)
              /\ canvas[c] = GridCanvas(DecodedPhotos(c), args[c].grid.cols.v,
                                        args[c].grid.rows.v, args[c].dpi,
                                        args[c].marginPercent, maxCellWidth[c])

\* C10 witness: a call with photos of different sizes returned after its
\* decode callbacks fired out of index order
C10_Witness ==
    \E c \in Calls :
        /\ GridDone(c)
        /\ reordered[c]
        /\ Len(args[c].photos.list) = 4
        /\ args[c].photos.list[1] # args[c].photos.list[2]
        /\ args[c].photos.list[3] # args[c].photos.list[4]

\* the canvas a call's arguments alone determine
ExpectedCanvas(a) ==
    LET imgs == [k \in 1..Len(a.photos.list) |-> Image(k, a.photos.list[k])]
    IN  IF a.entry = "createGridComposite" /\ ~StripGrid(a.grid)
          THEN GridCanvas(imgs, a.grid.cols.v, a.grid.rows.v, a.dpi, a.marginPercent,
                          IF a.maxCellWidth.isNull
                            THEN AutoMaxCellWidth(getPageSizeFromGrid(a.grid),
                                                  a.grid.cols.v, a.grid.rows.v)
                            ELSE a.maxCellWidth.v)
          ELSE StripFinalCanvas(StripCanvas(imgs, a.dpi), a.dpi)

\* C11: with two invocations in flight and their decode callbacks interleaved
\* in any order, a call has a canvas only once it has returned, its canvas and
\* output are the ones its own arguments determine (so only its own photos are
\* drawn on it), a failed call failed on one of its own corrupt photos, and
\* calls with identical arguments return identical outputs.
C11_OwnArgumentsOnly ==
    /\ \A c \in Calls :
          /\ canvas[c].created => pc[c] = "resolved"
          /\ pc[c] = "resolved" =>
                /\ canvas[c] = ExpectedCanvas(args[c])
                /\ result[c] = toDataURL(ExpectedCanvas(args[c]))
                /\ error[c] = NoError
          /\ pc[c] = "rejected" =>
                /\ result[c] = NoResult
                /\ error[c].source \in 1..Len(args[c].photos.list)
                /\ ~args[c].photos.list[error[c].source].ok
    /\ \A c, o \in Calls :
          (args[c] = args[o] /\ pc[c] = "resolved" /\ pc[o] = "resolved") =>
              result[c] = result[o] /\ canvas[c] = canvas[o]

\* C11 witness: two grid calls with different photos have both returned, each
\* with a callback that fired between two callbacks of the other, and two
\* different canvases
C11_Witness ==
    /\ \A c \in Calls : GridDone(c) /\ interleaved[c]
    /\ args["a"].photos # args["b"].photos
    /\ canvas["a"] # canvas["b"]

\* the ids of the fixed catalog
CatalogIds ==
    {"4x6-single", "4x6-2cut", "4x6-4cut", "4x6-6cut", "strip-grid", "5x5-single",
     "2x4-vertical-2", "5x7-6cut"}

\* getPageSizeFromGrid has returned to its caller
PageReturned(c) == args[c].entry = "getPageSizeFromGrid" /\ pc[c] = "returned"

\* C12: for a null or missing grid and for every grid whose id is in the
\* catalog, given as an object with any cols and rows or as the bare id string,
\* getPageSizeFromGrid returns {widthInches: 4, heightInches: 6, pageSize: '4x6'}.
C12_CatalogIs4x6 ==
    \A c \in Calls :
        (PageReturned(c) /\ (args[c].grid.kind = "null" \/ args[c].grid.id \in CatalogIds)) =>
            pageConfig[c] = [widthInches |-> 4, heightInches |-> 6, pageSize |-> "4x6"]

\* C12 witness: a 3x3 grid object with the legacy id '5x7-6cut', whose cols and
\* rows alone would give 8x10, got the 4x6 page
C12_Witness ==
    \E c \in Calls :
        /\ PageReturned(c)
        /\ args[c].grid = ObjectGrid("5x7-6cut", Num(3), Num(3), FALSE)
        /\ getPageSizeFromGrid(ObjectGrid(NoId, Num(3), Num(3), FALSE)).pageSize = "8x10"
        /\ pageConfig[c].pageSize = "4x6"

\* C13: for a grid whose id is not in the catalog, the result is the entry of
\* [2x4, 4x6, 5x7, 8x10] nearest in Manhattan distance to
\* (2*cols + 0.1*(cols-1), 3*rows + 0.1*(rows-1)), cols and rows counting as 1
\* when missing or 0; among entries at the minimal distance, the first listed.
C13_NearestStandardSize ==
    \A c \in Calls :
        LET g == args[c].grid
            cols == IF g.cols.has /\ g.cols.v # 0 THEN g.cols.v ELSE 1
            rows == IF g.rows.has /\ g.rows.v # 0 THEN g.rows.v ELSE 1
            width == Norm(20 * cols + (cols - 1), 10)
            height == Norm(30 * rows + (rows - 1), 10)
            sizes == << <<2, 4, "2x4">>, <<4, 6, "4x6">>, <<5, 7, "5x7">>, <<8, 10, "8x10">> >>
            dist(i) == RAdd(RAbs(RSub(width, R(sizes[i][1]))),
                            RAbs(RSub(height, R(sizes[i][2]))))
            best == CHOOSE i \in 1..4 :
                        \A j \in 1..4 : RLe(dist(i), dist(j)) /\ (dist(j) = dist(i) => i <= j)
        IN  (PageReturned(c) /\ g.kind # "null" /\ g # StringGrid("")
                /\ g.id \notin CatalogIds) =>
                pageConfig[c] = [widthInches |-> sizes[best][1],
                                 heightInches |-> sizes[best][2],
                                 pageSize |-> sizes[best][3]]

\* C14: for every input getPageSizeFromGrid returns a record with positive
\* widthInches and heightInches and a pageSize label among '2x4', '4x6', '5x7'
\* and '8x10', and its argument is left as it was.
C14_AlwaysAPageSize ==
    \A c \in Calls :
        PageReturned(c) =>
            /\ pageConfig[c].widthInches > 0 /\ pageConfig[c].heightInches > 0
            /\ pageConfig[c].pageSize \in {"2x4", "4x6", "5x7", "8x10"}
            /\ args[c] \in {PageCall(g) : g \in PageGrids}

\* a call of extractStripFromComposite has been made, has returned a bitmap
ExtractCalled(c) == args[c].entry = "extractStripFromComposite" /\ pc[c] # "idle"
ExtractDone(c) == ExtractCalled(c) /\ pc[c] = "resolved"

\* pixel (x, y) of the composite
CompositePixel(x, y) == [src |-> 1, u |-> x, v |-> y]

\* an undecodable composite ends in the load error and no bitmap
UndecodableFails(c) ==
    (ExtractCalled(c) /\ ~args[c].photos.list[1].ok) =>
        /\ pc[c] \in {"loading", "rejected"}
        /\ pc[c] = "rejected" => error[c].message = "Failed to load composite image"
        /\ stripCanvas[c] = NoCanvas /\ result[c] = NoResult

\* C15 as stated: for every decodable composite the bitmap is 2*dpi x 6*dpi
\* and its pixel (x, y) is the composite's pixel (x, y) for all x < 2*dpi,
\* y < 6*dpi (pixels compared for dpi <= MaxDpi); an undecodable composite
\* fails with an error and no bitmap.
C15_CropsVerbatim ==
    \A c \in Calls :
        /\ UndecodableFails(c)
        /\ ExtractDone(c) =>
              LET dpi == args[c].dpi
              IN  /\ stripCanvas[c].width = 2 * dpi /\ stripCanvas[c].height = 6 * dpi
                  /\ dpi <= MaxDpi =>
                        \A x \in 0..(2 * dpi - 1), y \in 0..(6 * dpi - 1) :
                            Pixel(stripCanvas[c], x, y) = CompositePixel(x, y)

\* C15 amended: the bitmap is 2*dpi x 6*dpi; its pixel (x, y) is the
\* composite's pixel (x, y) wherever the composite has one (x < its width,
\* y < its height), and is left undrawn elsewhere; an undecodable composite
\* fails with an error and no bitmap.
C15_CropsWhereCompositeHasPixels ==
    \A c \in Calls :
        /\ UndecodableFails(c)
        /\ ExtractDone(c) =>
              LET dpi == args[c].dpi
                  composite == args[c].photos.list[1]
              IN  /\ stripCanvas[c].width = 2 * dpi /\ stripCanvas[c].height = 6 * dpi
                  /\ result[c].width = 2 * dpi /\ result[c].height = 6 * dpi
                  /\ dpi <= MaxDpi =>
                        \A x \in 0..(2 * dpi - 1), y \in 0..(6 * dpi - 1) :
                            Pixel(stripCanvas[c], x, y) =
                                IF x < composite.width /\ y < composite.height
                                  THEN CompositePixel(x, y) ELSE Transparent

\* C15 witness: the strip of a 4x6 composite at dpi 2 was extracted, its last
\* pixel is the composite's pixel (3, 11)
C15_Witness ==
    \E c \in Calls :
        /\ ExtractDone(c)
        /\ args[c].dpi = 2
        /\ args[c].photos.list[1] = Photo(8, 12, TRUE)
        /\ Pixel(stripCanvas[c], 3, 11) = CompositePixel(3, 11)

\* C16: in createStripGridComposite photo i (i = 0..3) is drawn inside cell i
\* of 4 cells of equal height stacked from the top of the strip, and the 4
\* cells lie within the 2*dpi x 6*dpi strip canvas.
C16_StripCellsInsideStrip ==
    \A c \in Calls :
        StripDone(c) =>
            LET dpi == args[c].dpi
                cellHeightPx == StripCellHeightPx(dpi)
            IN  /\ stripCanvas[c].width = 2 * dpi /\ stripCanvas[c].height = 6 * dpi
                /\ 4 * cellHeightPx <= stripCanvas[c].height
                /\ \A i \in 0..3 :
                      LET op == DrawOf(stripCanvas[c], i)
                      IN  /\ op.src = i + 1
                          /\ RLe(R(0), op.dx)
                          /\ RLe(RAdd(op.dx, op.dw), R(stripCanvas[c].width))
                          /\ RLe(R(i * cellHeightPx), op.dy)
                          /\ RLe(RAdd(op.dy, op.dh), R((i + 1) * cellHeightPx))
                          /\ RLe(RAdd(op.dy, op.dh), R(stripCanvas[c].height))

\* the greatest of a non-empty set of numbers
RMaxOf(S) == CHOOSE x \in S : \A y \in S : RLe(y, x)

\* the aspect ratios width / height of the call's photos
Aspects(c) ==
    {Norm(args[c].photos.list[k].width, args[c].photos.list[k].height) :
        k \in 1..Len(args[c].photos.list)}

\* the component-wise maximum over the baseline and the photos: <<width, height>>
StatedCellInches(c) ==
    LET w == maxCellWidth[c]
    IN  << RMaxOf({w} \cup {RMul(w, a) : a \in {b \in Aspects(c) : RLe(b, R(1))}}),
           RMaxOf({w} \cup {RDiv(w, a) : a \in {b \in Aspects(c) : RLt(R(1), b)}}) >>

\* C17: the uniform cell is max(maxCellWidth, max of maxCellWidth * aspect over
\* the photos with aspect <= 1) wide and max(maxCellWidth, max of
\* maxCellWidth / aspect over the photos with aspect > 1) high, in inches, and
\* every cell of the canvas has that size: the canvas is sized for cols x rows
\* such cells and every photo is drawn inside a box of that size.
C17_CellIsComponentwiseMax ==
    \A c \in Calls :
        GridDone(c) =>
            LET cols == args[c].grid.cols.v
                rows == args[c].grid.rows.v
                w == Round(RMul(StatedCellInches(c)[1], R(args[c].dpi)))
                h == Round(RMul(StatedCellInches(c)[2], R(args[c].dpi)))
                m == Round(Norm((IF w < h THEN w ELSE h) * args[c].marginPercent, 100))
            IN  /\ canvas[c].width = m + (w + m) * cols
                /\ canvas[c].height = m + (h + m) * rows
                /\ (w > 0 /\ h > 0) =>
                      \A i \in 0..(Len(images[c]) - 1) :
                          LET op == DrawOf(canvas[c], i)
                              x0 == m + ColOf(i, rows) * (w + m)
                              y0 == m + RowOf(i, rows) * (h + m)
                          IN  /\ RLe(R(x0), op.dx) /\ RLe(RAdd(op.dx, op.dw), R(x0 + w))
                              /\ RLe(R(y0), op.dy) /\ RLe(RAdd(op.dy, op.dh), R(y0 + h))

\* C17 witness: a 2x2 call of wide and tall photos has returned
C17_Witness ==
    \E c \in Calls :
        /\ GridDone(c)
        /\ args[c].grid.cols = Num(2) /\ args[c].grid.rows = Num(2)
        /\ \E a \in Aspects(c) : RLt(R(1), a)
        /\ \E a \in Aspects(c) : RLt(a, R(1))
        /\ args[c].dpi = PrintDpi

\* photos of extreme aspect ratios, and a square one
ExtremePhotos == {Photo(4, 1, TRUE), Photo(1, 4, TRUE), Photo(2, 1, TRUE), Photo(1, 1, TRUE)}

\* the grid, dpi, marginPercent and maxCellWidth of the well-formed calls
GeometryConfigs ==
    {GridCall(NoPhotos, ObjectGrid(i, Num(d[1]), Num(d[2]), FALSE), dpi, m, w) :
        d \in {x \in (1..MaxDim) \X (1..MaxDim) : x[1] * x[2] <= MaxPhotos},
        i \in {NoId, "4x6-4cut"}, dpi \in DpiValues, m \in MarginPercents,
        w \in MaxCellWidths}

\* the layout createGridComposite computes for the photos l in a call with the
\* grid, dpi, marginPercent and maxCellWidth of a
LayoutFor(a, l) ==
    GridLayout([k \in 1..Len(l) |-> Image(k, l[k])], a.grid.cols.v, a.grid.rows.v,
               a.dpi, a.marginPercent,
               IF a.maxCellWidth.isNull
                 THEN AutoMaxCellWidth(getPageSizeFromGrid(a.grid), a.grid.cols.v,
                                       a.grid.rows.v)
                 ELSE a.maxCellWidth.v)

\* some grid, dpi, marginPercent and maxCellWidth and some photos of extreme
\* aspect ratio give a cell wider or higher, and a canvas larger, than square
\* photos give (whose cell is maxCellWidth * dpi square)
SomePhotosEnlarge ==
    \E a \in GeometryConfigs :
        \E l \in [1..(a.grid.cols.v * a.grid.rows.v) -> ExtremePhotos] :
            LET lay == LayoutFor(a, l)
                square == LayoutFor(a, [k \in 1..Len(l) |-> Photo(1, 1, TRUE)])
            IN  /\ \/ lay.cellWidthPx > square.cellWidthPx
                   \/ lay.cellHeightPx > square.cellHeightPx
                /\ \/ lay.canvasWidth > square.canvasWidth
                   \/ lay.canvasHeight > square.canvasHeight

\* C18: photos of extreme aspect ratio enlarge the cell beyond maxCellWidth and
\* with it the canvas: once a well-formed call with a 2:1 photo has returned,
\* there are photo sets whose cell is wider or higher than maxCellWidth * dpi
\* and whose canvas is larger than the one square photos give.
C18_ExtremeAspectsEnlarge ==
    \A c \in Calls :
        (/\ GridDone(c) /\ PositiveGrid(args[c].grid)
         /\ \E a \in Aspects(c) : RLe(R(2), a)) => SomePhotosEnlarge

\* C19: without a maxCellWidth argument the call uses
\* min((pageWidth - 0.1*(cols-1)) / cols, (pageHeight - 0.1*(rows-1)) / rows)
\* for the page size it resolved, whatever marginPercent is; a maxCellWidth
\* argument is used as it is and the cells are then maxCellWidth * dpi whatever
\* the page size is.
C19_MaxCellWidthDefault ==
    \A c \in Calls :
        fn[c] = "grid" =>
            LET cols == args[c].grid.cols.v
                rows == args[c].grid.rows.v
                page == pageConfig[c]
                perCol == Norm(10 * page.widthInches - (cols - 1), 10 * cols)
                perRow == Norm(10 * page.heightInches - (rows - 1), 10 * rows)
            IN  /\ page = getPageSizeFromGrid(args[c].grid)
                /\ args[c].maxCellWidth.isNull =>
                      maxCellWidth[c] = (IF RLt(perRow, perCol) THEN perRow ELSE perCol)
                /\ ~args[c].maxCellWidth.isNull =>
                      /\ maxCellWidth[c] = args[c].maxCellWidth.v
                      /\ (GridDone(c) /\ RLt(R(0), args[c].maxCellWidth.v)) =>
                            LET cell == Round(RMul(args[c].maxCellWidth.v, R(args[c].dpi)))
                                m == Round(Norm(cell * args[c].marginPercent, 100))
                            IN  /\ canvas[c].width = m + (cell + m) * cols
                                /\ canvas[c].height = m + (cell + m) * rows

\* C19 witness: a 2x2 call without maxCellWidth and with marginPercent 3 has
\* returned, having used 1.95 inches
C19_Witness ==
    \E c \in Calls :
        /\ GridDone(c)
        /\ args[c].maxCellWidth.isNull
        /\ args[c].marginPercent = 3
        /\ args[c].grid.cols = Num(2) /\ args[c].grid.rows = Num(2)
        /\ maxCellWidth[c] = <<39, 20>>

\* the box of the cell photo index i is placed in: <<left, top, right, bottom>>
CellBox(c, i) ==
    LET lay == LayoutOf(c)
        rows == args[c].grid.rows.v
        x0 == lay.marginSize + ColOf(i, rows) * (lay.cellWidthPx + lay.marginSize)
        y0 == lay.marginSize + RowOf(i, rows) * (lay.cellHeightPx + lay.marginSize)
    IN  <<x0, y0, x0 + lay.cellWidthPx, y0 + lay.cellHeightPx>>

\* C20: with marginPercent >= 0, margin = round(min(cellWidthPx, cellHeightPx)
\* * marginPercent / 100), the canvas is margin + (cell + margin) * count per
\* axis, every photo is drawn in the cell box at (margin + col*(cellWidthPx +
\* margin), margin + row*(cellHeightPx + margin)), and the cell boxes lie inside
\* the canvas, do not overlap, and are exactly margin pixels from their
\* neighbours and from the canvas edges.
C20_CellsSeparatedByMargin ==
    \A c \in Calls :
        (GridDone(c) /\ args[c].marginPercent >= 0) =>
            LET lay == LayoutOf(c)
                cols == args[c].grid.cols.v
                rows == args[c].grid.rows.v
                n == Len(images[c])
                w == lay.cellWidthPx
                h == lay.cellHeightPx
                m == Round(Norm((IF w < h THEN w ELSE h) * args[c].marginPercent, 100))
            IN  /\ canvas[c].width = m + (w + m) * cols
                /\ canvas[c].height = m + (h + m) * rows
                /\ \A i \in 0..(n - 1) :
                      LET b == CellBox(c, i)
                          op == DrawOf(canvas[c], i)
                      IN  /\ b[1] = m + ColOf(i, rows) * (w + m)
                          /\ b[2] = m + RowOf(i, rows) * (h + m)
                          /\ RLe(R(b[1]), op.dx) /\ RLe(RAdd(op.dx, op.dw), R(b[3]))
                          /\ RLe(R(b[2]), op.dy) /\ RLe(RAdd(op.dy, op.dh), R(b[4]))
                          /\ 0 <= b[1] /\ b[1] <= b[3] /\ b[3] <= canvas[c].width
                          /\ 0 <= b[2] /\ b[2] <= b[4] /\ b[4] <= canvas[c].height
                          \* the nearest box to the left or the canvas edge is m away
                          /\ \/ b[1] = m
                             \/ \E j \in 0..(n - 1) : CellBox(c, j)[3] + m = b[1]
                          /\ \/ b[3] + m = canvas[c].width
                             \/ \E j \in 0..(n - 1) : CellBox(c, j)[1] = b[3] + m
                          /\ \/ b[2] = m
                             \/ \E j \in 0..(n - 1) : CellBox(c, j)[4] + m = b[2]
                          /\ \/ b[4] + m = canvas[c].height
                             \/ \E j \in 0..(n - 1) : CellBox(c, j)[2] = b[4] + m
                /\ \A i, j \in 0..(n - 1) :
                      i # j =>
                          LET a == CellBox(c, i)
                              b == CellBox(c, j)
                          IN  \/ a[3] + m <= b[1] \/ b[3] + m <= a[1]
                              \/ a[4] + m <= b[2] \/ b[4] + m <= a[2]

\* the cell box of photo index i of a finished call, grid or strip
FitCell(c, i) ==
    IF fn[c] = "strip"
      THEN [x |-> 0, y |-> StripCellY(i, StripCellHeightPx(args[c].dpi)),
            w |-> StripWidthPx(args[c].dpi), h |-> StripCellHeightPx(args[c].dpi)]
      ELSE LET lay == LayoutOf(c)
               rows == args[c].grid.rows.v
           IN  [x |-> CellOrigin(lay.marginSize, lay.cellWidthPx, ColOf(i, rows)),
                y |-> CellOrigin(lay.marginSize, lay.cellHeightPx, RowOf(i, rows)),
                w |-> lay.cellWidthPx, h |-> lay.cellHeightPx]

\* the drawImage call that placed photo index i of a finished call
FitDraw(c, i) == DrawOf(IF fn[c] = "strip" THEN stripCanvas[c] ELSE canvas[c], i)

\* C21: in both compositors, a photo relatively wider than its cell is drawn
\* at the full cell width from the cell's left edge with equal space above and
\* below; otherwise at the full cell height from the cell's top edge with equal
\* space left and right; with equal aspects the rectangle is the cell box.
C21_FitMaximalCentered ==
    \A c \in Calls :
        pc[c] = "resolved" =>
            \A i \in 0..(Len(images[c]) - 1) :
                LET cell == FitCell(c, i)
                    op == FitDraw(c, i)
                    photo == args[c].photos.list[i + 1]
                    imageAspect == Norm(photo.width, photo.height)
                    cellAspect == Norm(cell.w, cell.h)
                    right == RAdd(op.dx, op.dw)
                    bottom == RAdd(op.dy, op.dh)
                IN  cell.h # 0 =>
                      /\ IF RLt(cellAspect, imageAspect)
                            THEN /\ op.dw = R(cell.w)
                                 /\ op.dx = R(cell.x)
                                 /\ RSub(op.dy, R(cell.y)) = RSub(R(cell.y + cell.h), bottom)
                            ELSE /\ op.dh = R(cell.h)
                                 /\ op.dy = R(cell.y)
                                 /\ RSub(op.dx, R(cell.x)) = RSub(R(cell.x + cell.w), right)
                      /\ imageAspect = cellAspect =>
                            /\ op.dx = R(cell.x) /\ op.dy = R(cell.y)
                            /\ op.dw = R(cell.w) /\ op.dh = R(cell.h)

\* C21 witness: a returned strip at dpi 2 (cells 4 x 3) placed a 2:1 photo with
\* space above it, a 3:4 photo with space left of it and a 4:3 photo that
\* fills its cell
C21_Witness ==
    \E c \in Calls :
        /\ StripDone(c)
        /\ args[c].dpi = 2
        /\ \E i \in 0..3 :
              /\ args[c].photos.list[i + 1] = Photo(2, 1, TRUE)
              /\ RLt(R(FitCell(c, i).y), FitDraw(c, i).dy)
        /\ \E i \in 0..3 :
              /\ args[c].photos.list[i + 1] = Photo(3, 4, TRUE)
              /\ RLt(R(FitCell(c, i).x), FitDraw(c, i).dx)
        /\ \E i \in 0..3 :
              /\ args[c].photos.list[i + 1] = Photo(4, 3, TRUE)
              /\ FitDraw(c, i).dw = R(4) /\ FitDraw(c, i).dh = R(3)

\* a step of call c as C22 allows it: a rejected join ends the call in the
\* next step, with no decode callback in between, and a call that ended in
\* error keeps its error and draws nothing when later callbacks fire
FailFastStep(c) ==
    /\ (pc[c] = "awaiting" /\ join[c] = "rejected") =>
          /\ pc'[c] = "rejected"
          /\ error'[c] = ErrDecode(reason[c])
          /\ decode'[c] = decode[c]
    /\ pc[c] = "rejected" =>
          /\ pc'[c] = "rejected"
          /\ error'[c] = error[c]
          /\ canvas'[c] = NoCanvas /\ stripCanvas'[c] = NoCanvas
          /\ result'[c] = NoResult

\* C22: the first failed decode rejects the join at once, whatever the other
\* decodes are doing; the call then ends in that error before any other
\* decode callback runs, and callbacks that fire later change neither the
\* error nor any canvas.
C22_FailFast ==
    /\ [](\A c \in Calls :
            SomeDecodeFailed(c) =>
                /\ join[c] = "rejected"
                /\ pc[c] \in {"awaiting", "rejected"}
                /\ canvas[c] = NoCanvas /\ stripCanvas[c] = NoCanvas)
    /\ [][\A c \in Calls : FailFastStep(c)]_vars

\* C22 witness: a call has ended in the error of its first failed decode, a
\* second decode failed after that, and a third has not completed yet
C22_Witness ==
    \E c \in Calls :
        /\ pc[c] = "rejected" /\ fn[c] = "grid"
        /\ error[c] = ErrDecode(reason[c])
        /\ \E k \in DOMAIN decode[c] : k # reason[c] /\ decode[c][k] = "failed"
        /\ \E k \in DOMAIN decode[c] : decode[c][k] = "pending"
        /\ canvas[c] = NoCanvas /\ result[c] = NoResult

RoundTripPixel(c, o, x, y) ==
    LET p == Pixel(stripCanvas[c], x, y)
    IN  IF p.src = 1 THEN Pixel(canvas[o], p.u, p.v) ELSE p

\* C25: the strip extracted from the composite createStripGridComposite
\* returned, at the same dpi, is 2*dpi x 6*dpi and equals pixel for pixel the
\* intermediate strip canvas and the right half of the composite (pixels
\* compared for dpi <= MaxDpi, before JPEG encoding).
C25_RoundTrip ==
    (ExtractDone("b") /\ StripDone("a")) =>
        LET dpi == args["a"].dpi
        IN  /\ args["b"].dpi = dpi
            /\ result["b"].width = 2 * dpi /\ result["b"].height = 6 * dpi
            /\ stripCanvas["a"].width = 2 * dpi /\ stripCanvas["a"].height = 6 * dpi
            /\ dpi <= MaxDpi =>
                  \A x \in 0..(2 * dpi - 1), y \in 0..(6 * dpi - 1) :
                      /\ RoundTripPixel("b", "a", x, y) = Pixel(stripCanvas["a"], x, y)
                      /\ RoundTripPixel("b", "a", x, y) = Pixel(canvas["a"], x + 2 * dpi, y)
                      /\ RoundTripPixel("b", "a", x, y) # Transparent

\* C25 witness: the strip of a composite of three photo sizes at dpi 2 was
\* extracted and shows pixels of photo 1 at its top, of photo 4 at its bottom
\* and white in between
C25_Witness ==
    /\ ExtractDone("b") /\ StripDone("a")
    /\ args["a"].dpi = 2
    /\ Cardinality({args["a"].photos.list[k] : k \in 1..4}) = 3
    /\ \E x \in 0..3 : RoundTripPixel("b", "a", x, 1).src = 1
    /\ \E x \in 0..3 : RoundTripPixel("b", "a", x, 10).src = 4
    /\ \E x \in 0..3, y \in 0..11 : RoundTripPixel("b", "a", x, y) = White

\* the call has ended with a bitmap and no error, or with an error and no bitmap
OneOutcome(c) ==
    \/ pc[c] = "resolved" /\ result[c] # NoResult /\ error[c] = NoError
    \/ pc[c] = "rejected" /\ error[c] # NoError /\ result[c] = NoResult

\* C26: when every started decode fires its load or error callback, a call
\* of createGridComposite or createStripGridComposite eventually ends, with a
\* bitmap or with an error, never with both, and stays ended that way.
C26_Terminates ==
    /\ \A c \in MainCalls : <>[]OneOutcome(c)
    /\ [](\A c \in Calls : result[c] = NoResult \/ error[c] = NoError)

\* C26 witness: a strip call has ended in an error after all 4 decodes
\* completed, two of them failing
C26_Witness ==
    \E c \in MainCalls :
        /\ OneOutcome(c) /\ pc[c] = "rejected" /\ fn[c] = "strip"
        /\ \A k \in DOMAIN decode[c] : decode[c][k] # "pending"
        /\ Cardinality({k \in DOMAIN decode[c] : decode[c][k] = "failed"}) = 2

\* C23: when handleNext has finished on a non-empty photo list, the frame
\* selection screen is navigated to and the session's compositeImage is
\* defined: the data URL createGridComposite returned when the call was made
\* and resolved, and otherwise (the call rejected, was not made, the counts
\* did not match) the first of the edited photos, finalPhotos[0].
C23_ComposeFailureNotPropagated ==
    (handleNext.pc = "done" /\ Len(EditScreenPhotos) > 0) =>
        /\ route = "/frame-selection"
        /\ sessionData.editedPhotos = Photos(handleNext.finalPhotos)
        /\ sessionData.compositeImage # NoCompositeImage
        /\ sessionData.compositeImage =
               IF pc["a"] = "resolved" THEN CompositeImage(result["a"])
               ELSE PhotoImage(handleNext.finalPhotos[1])

\* handleNext finished after createGridComposite rejected
C23_Witness ==
    /\ handleNext.pc = "done"
    /\ pc["a"] = "rejected"
    /\ error["a"] # NoError
    /\ sessionData.compositeImage = PhotoImage(handleNext.finalPhotos[1])
    /\ route = "/frame-selection"

\* C27: once handleNext is called, it eventually has called updateSession
\* and navigated to the frame selection screen, whatever the outcome of the
\* image loads of saveCurrentPhoto and of the compose call.
C27_HandleNextCompletes ==
    (handleNext.pc # "none") ~> (handleNext.pc = "done" /\ route = "/frame-selection")


\* C28: on the capture screen, the load callback of a capture appends exactly
\* its one photo to capturedPhotos as the list stands when the callback runs:
\* photos of captures that completed in between stay, photos deleted in
\* between do not come back.
C28_NoLostUpdate ==
    [][\A n \in DOMAIN handleCapture :
          (/\ CameraSettingsMounted
           /\ handleCapture[n].img = "loading"
           /\ handleCapture'[n].img = "loaded")
              => capturedPhotos' = Append(capturedPhotos, photoData(n))]_vars

\* the selected grid is a strip grid
C29_StripGrid ==
    LET grid == sessionData.selectedGrid
    IN  \/ grid.kind = "string" /\ grid.id = "strip-grid"
        \/ grid.kind = "object" /\ (grid.id = "strip-grid" \/ grid.isStripGrid)

\* a list of exactly totalCells photos is in the session
C29_SessionComplete(session) ==
    /\ session.capturedPhotos.defined
    /\ Len(session.capturedPhotos.list) = totalCells

\* C29: with a fixed selected grid, capturedPhotos never holds more than
\* totalCells photos, totalCells being 4 for a strip grid and cols * rows for
\* a grid object with cols and rows; the session's capturedPhotos is written,
\* and the navigation to the edit screen is scheduled, only in a step that
\* writes a list of exactly totalCells photos.
C29_AtMostTotalCells ==
    /\ [](/\ Len(capturedPhotos) <= totalCells
          /\ C29_StripGrid => totalCells = 4
          /\ (/\ ~C29_StripGrid
              /\ sessionData.selectedGrid.kind = "object"
              /\ sessionData.selectedGrid.cols.has
              /\ sessionData.selectedGrid.rows.has)
                 => totalCells = sessionData.selectedGrid.cols.v
                                     * sessionData.selectedGrid.rows.v
          /\ sessionData.capturedPhotos.defined => C29_SessionComplete(sessionData)
          /\ (Len(timeouts) > 0 \/ route = "/edit") => C29_SessionComplete(sessionData))
    /\ [][(\/ sessionData'.capturedPhotos # sessionData.capturedPhotos
           \/ Len(timeouts') > Len(timeouts))
              => /\ C29_SessionComplete(sessionData')
                 /\ Len(timeouts') = Len(timeouts) + 1
                 /\ sessionData'.selectedGrid = sessionData.selectedGrid]_vars

\* a grid of several cells: after a photo was deleted or overwritten, the
\* list is complete, in the session, and the navigation is pending
C29_Witness ==
    /\ totalCells > 1
    /\ Len(capturedPhotos) = totalCells
    /\ sessionData.capturedPhotos = Photos(capturedPhotos)
    /\ Len(timeouts) = 1
    /\ \E n \in DOMAIN capturedPhotos : capturedPhotos[n].from > n


====
